---- MODULE Spec2Model ----
(***************************************************************************)
(* The fallback-chain download engine of sdss_fetch                        *)
(* (sdss_fetch/downloader.py, class SDSSParallelDownloader): the           *)
(* data-release catalog, the candidate chain walked by try_download, the   *)
(* two-attempt loop of download_with_retry, the check-then-write filename  *)
(* resolution, the unserialised appends to the audit log and to the        *)
(* failed-target list, and the thread pool of download_all.                *)
(***************************************************************************)
EXTENDS Integers, Sequences, FiniteSets, TLC

(***************************************************************************)
(* Bounds of the exploration.                                              *)
(***************************************************************************)
\* largest batch handed to download_all
MaxTargets == 2
\* largest max_workers
MaxWorkers == 2
\* with more than one target in the batch, dr_list is cut to this prefix
MaxReleases == 0
\* most payloads whose saving may break off in mid-stream during one run
MaxPartial == 1
\* most opens of a destination file that may fail during one run
MaxFsErrors == 1

\* most calls of log_message / log_failed that may raise during one run
MaxLogErrors == 1

\* the largest max_retries a CutoutFetcher or SpectrumPreview is built with
MaxRetries == 2

\* most calls made on one TargetResolver
MaxCalls == 3

\* most rows of a DataFrame handed to resolve_all
MaxRows == 2

\* most regions of one call of query_sdss_per_region
MaxRegions == 3

\* the largest checkpoint_step
MaxStep == 2

(***************************************************************************)
(* Text.  A string the code builds from numbers is a sequence of           *)
(* one-character strings; str() and the format specs 04d / 05d are         *)
(* computed digit by digit.                                                *)
(***************************************************************************)
DigitChars == <<"0", "1", "2", "3", "4", "5", "6", "7", "8", "9">>

RECURSIVE NatStr(_)
NatStr(n) ==
    IF n < 10 THEN <<DigitChars[n + 1]>>
    ELSE NatStr(n \div 10) \o <<DigitChars[(n % 10) + 1]>>

\* str(n) / f"{n}"
Str(n) == IF n < 0 THEN <<"-">> \o NatStr(-n) ELSE NatStr(n)

RECURSIVE Zeros(_)
Zeros(k) == IF k <= 0 THEN <<>> ELSE <<"0">> \o Zeros(k - 1)

\* a format that cuts the number to the width: its last width digits
ZeroPadFixed(n, width) ==
    LET digs == Zeros(width) \o NatStr(IF n < 0 THEN -n ELSE n)
    IN  SubSeq(digs, Len(digs) - width + 1, Len(digs))

\* f"{n:0<width>d}": the sign first, then zeros up to the width, then the digits
ZeroPad(n, width) ==
    LET sign == IF n < 0 THEN <<"-">> ELSE <<>>
        digs == NatStr(IF n < 0 THEN -n ELSE n)
    IN  sign \o Zeros(width - Len(sign) - Len(digs)) \o digs

\* the characters of a literal that the model needs one by one
Chars_spec == <<"s", "p", "e", "c", "-">>
Chars_fits == <<".", "f", "i", "t", "s">>

(***************************************************************************)
(* The data-release catalog of __init__.                                   *)
(***************************************************************************)
\* list(self.dr_config.keys()): the insertion order of the dict literal
DrList ==
    <<"dr16", "dr17", "dr18", "dr15", "dr14", "dr13",
      "dr12", "dr11", "dr10", "dr9", "dr8">>

\* self.dr_config: release -> (run2d, survey, dr_dir)
dr_config ==
    [dr \in {DrList[i] : i \in 1..Len(DrList)} |->
        CASE dr = "dr16" -> <<"v5_13_0", "eboss", "dr16">>
          [] dr = "dr17" -> <<"v5_13_2", "eboss", "dr17">>
          [] dr = "dr18" -> <<"v6_0_4", "bhm", "dr18">>
          [] dr = "dr15" -> <<"v5_10_0", "eboss", "dr15">>
          [] dr = "dr14" -> <<"v5_10_0", "eboss", "dr14">>
          [] dr = "dr13" -> <<"v5_9_0", "eboss", "dr13">>
          [] dr = "dr12" -> <<"v5_7_0", "boss", "dr12">>
          [] dr = "dr11" -> <<"v5_7_0", "boss", "dr11">>
          [] dr = "dr10" -> <<"v5_5_12", "boss", "dr10">>
          [] dr = "dr9"  -> <<"v5_5_12", "boss", "dr9">>
          [] dr = "dr8"  -> <<"v5_4_45", "sdss", "dr8">>]

\* self.run2d_multi: release -> the pipeline versions tried for it, in order
run2d_multi ==
    [dr \in {DrList[i] : i \in 1..Len(DrList)} |->
        CASE dr = "dr16" -> <<"26", "103", "104", "v5_13_0">>
          [] dr = "dr17" -> <<"v5_13_2">>
          [] dr = "dr18" -> <<"v6_0_4">>
          [] dr = "dr15" -> <<"v5_10_0">>
          [] dr = "dr14" -> <<"v5_10_0", "26", "103", "104">>
          [] dr = "dr13" -> <<"v5_9_0">>
          [] dr = "dr12" -> <<"v5_7_0", "v5_7_2", "26", "103", "104">>
          [] dr = "dr11" -> <<"v5_7_0">>
          [] dr = "dr10" -> <<"v5_5_12", "26", "103", "104">>
          [] dr = "dr9"  -> <<"v5_5_12">>
          [] dr = "dr8"  -> <<"v5_4_45">>]

(***************************************************************************)
(* URLs.  A URL is the sequence of its parts (host, path segments, query   *)
(* values); the parts built from the target are character sequences.      *)
(***************************************************************************)
\* "spec-{plate:04d}-{mjd}-{fiber:04d}.fits", the file part of the archive URLs
SpecFile4(plate, mjd, fiber) ==
    Chars_spec \o ZeroPad(plate, 4) \o <<"-">> \o Str(mjd) \o <<"-">>
        \o ZeroPad(fiber, 4) \o Chars_fits

construct_sas_url(dr, plate, mjd, fiber) ==
    LET run2d  == dr_config[dr][1]
        survey == dr_config[dr][2]
    IN  <<dr \o ".sdss.org", "sas", dr, "spectro", survey, "redux", run2d,
          "spectra", "lite", ZeroPad(plate, 4), SpecFile4(plate, mjd, fiber)>>

construct_api_url(dr, plate, mjd, fiber) ==
    <<dr \o ".sdss.org", "optical", "spectrum", "view", "data", "format=fits",
      "spec=lite", "plateid=", Str(plate), "mjd=", Str(mjd), "fiberid=", Str(fiber)>>

construct_sdss_org_url(dr, run2d, plate, mjd, fiber) ==
    <<"data.sdss.org", "sas", dr, "sdss", "spectro", "redux", run2d,
      "spectra", "lite", ZeroPad(plate, 4), SpecFile4(plate, mjd, fiber)>>

\* the literal fast-path URL of try_download
priority_url(plate, mjd, fiber) ==
    <<"dr16.sdss.org", "sas", "dr16", "eboss", "spectro", "redux", "v5_13_0",
      "spectra", "lite", ZeroPad(plate, 4), SpecFile4(plate, mjd, fiber)>>

\* a base filename that does not tell the targets apart
filename_baseShared(plate, mjd, fiber) == Chars_spec \o Chars_fits

\* filename_base = f"spec-{plate:04d}-{mjd}-{fiber:05d}.fits"
filename_base(plate, mjd, fiber) ==
    Chars_spec \o ZeroPad(plate, 4) \o <<"-">> \o Str(mjd) \o <<"-">>
        \o ZeroPad(fiber, 5) \o Chars_fits

(***************************************************************************)
(* The candidate chain of try_download, in the order the code walks it.    *)
(* A candidate is the URL handed to download_with_retry and the method     *)
(* text of the log line written when it succeeds.                          *)
(***************************************************************************)
Cand(url, method) == [url |-> url, method |-> method]

\* the fast path
Tier1(t) ==
    <<Cand(priority_url(t.plate, t.mjd, t.fiber), <<"Priority DR16 Lite SAS">>)>>

\* the loop taking the first pipeline version of the release only
Tier2ReleaseFirstOnly(dr, t) ==
    [j \in 1..1 |->
        Cand(construct_sdss_org_url(dr, run2d_multi[dr][j], t.plate, t.mjd, t.fiber),
             <<dr, "sdss.org run2d=", run2d_multi[dr][j]>>)]

\* for run2d in self.run2d_multi.get(dr, [])
Tier2Release(dr, t) ==
    [j \in 1..Len(run2d_multi[dr]) |->
        Cand(construct_sdss_org_url(dr, run2d_multi[dr][j], t.plate, t.mjd, t.fiber),
             <<dr, "sdss.org run2d=", run2d_multi[dr][j]>>)]

\* for dr in self.dr_list: for run2d in ...
RECURSIVE Tier2(_, _)
Tier2(drs, t) ==
    IF drs = <<>> THEN <<>> ELSE Tier2Release(Head(drs), t) \o Tier2(Tail(drs), t)

\* the API of the highest-numbered release of the catalog
Tier3Dr18(t) ==
    <<Cand(construct_api_url("dr18", t.plate, t.mjd, t.fiber), <<"DR16 API">>)>>

\* the DR16 API
Tier3(t) ==
    <<Cand(construct_api_url("dr16", t.plate, t.mjd, t.fiber), <<"DR16 API">>)>>

\* for dr in self.dr_list: the SAS path, then the API path
RECURSIVE Tier4(_, _)
Tier4(drs, t) ==
    IF drs = <<>> THEN <<>>
    ELSE <<Cand(construct_sas_url(Head(drs), t.plate, t.mjd, t.fiber), <<Head(drs), "SAS">>),
           Cand(construct_api_url(Head(drs), t.plate, t.mjd, t.fiber), <<Head(drs), "API">>)>>
         \o Tier4(Tail(drs), t)

\* the chain with the DR16 API tried before the sdss.org paths
ChainApiFirst(drs, t) == Tier1(t) \o Tier3(t) \o Tier2(drs, t) \o Tier4(drs, t)

Chain(drs, t) == Tier1(t) \o Tier2(drs, t) \o Tier3(t) \o Tier4(drs, t)

(***************************************************************************)
(* Filenames.  The destination directory is fixed, so a path is modelled   *)
(* by its file name, a character sequence.                                 *)
(***************************************************************************)
\* index of the last "." of s, 0 when there is none
LastDot(s) ==
    LET dots == {i \in 1..Len(s) : s[i] = "."}
    IN  IF dots = {} THEN 0 ELSE CHOOSE i \in dots : \A j \in dots : j <= i

\* os.path.splitext: <<base, ext>>, the extension starting at the last dot
\* (a name with no dot, or only a leading one, has the empty extension)
splitext(s) ==
    IF LastDot(s) <= 1 THEN <<s, <<>>>>
    ELSE <<SubSeq(s, 1, LastDot(s) - 1), SubSeq(s, LastDot(s), Len(s))>>

\* the loop with the counter appended to the whole path, after the extension
RECURSIVE UniqueLoopAfterExt(_, _, _, _, _)
UniqueLoopAfterExt(names, base, ext, counter, new_path) ==
    IF new_path \in names
    THEN UniqueLoopAfterExt(names, base, ext, counter + 1,
                            base \o ext \o <<"_">> \o Str(counter))
    ELSE new_path

\* the while loop of get_unique_filename over the names that exist
RECURSIVE UniqueLoop(_, _, _, _, _)
UniqueLoop(names, base, ext, counter, new_path) ==
    IF new_path \in names
    THEN UniqueLoop(names, base, ext, counter + 1, base \o <<"_">> \o Str(counter) \o ext)
    ELSE new_path

\* the path handed back without a look at the directory
get_unique_filenameNoCheck(names, filepath) == filepath

get_unique_filename(names, filepath) ==
    UniqueLoop(names, splitext(filepath)[1], splitext(filepath)[2], 2, filepath)

(***************************************************************************)
(* State.                                                                  *)
(***************************************************************************)
VARIABLES
    dr_list,      \* self.dr_list
    lists,        \* the arguments of download_all: plates, mjds, fibers
    args,         \* the batch: the targets zipped from plates, mjds, fibers
    max_workers,  \* self.max_workers
    main_pc,      \* download_all: "call", "pool" (inside the with block), "returned"
    queue,        \* the pool's work queue: indices of args not yet started
    task,         \* task[w]: the index of args worker w is resolving, 0 when idle
    pc,           \* pc[w]: where worker w stands in try_download / download_with_retry
    pos,          \* pos[w]: position in the candidate chain
    attempt,      \* attempt[w]: attempt + 1 of the loop of download_with_retry
    final_path,   \* final_path[w] of download_with_retry
    msg,          \* msg[w]: the line worker w is about to append
    after,        \* after[w]: where worker w continues when log_message returns
    dir,          \* the destination directory: file name -> [writers, complete]
    partials,     \* payloads whose saving broke off in mid-stream so far
    fs_errors,    \* the targets whose open or write raised OSError, in order
    failed_list,  \* failed_list.txt: one target per line
    att_log,      \* att_log[i]: the lines logged for target i in its current step of
                  \* the chain (an attempt, the end of a candidate, the end of the chain)
    att_out,      \* att_out[i]: how the current attempt for target i went
    nreq,         \* nreq[i][c]: requests issued for candidate c of target i
    walk,         \* walk[i]: the URLs requested for target i, in the order requested
    nfail,        \* nfail[i][c]: failed attempts on candidate c of target i
    inflight,     \* inflight[i]: requests for target i awaiting their response
    dwr,          \* dwr[i]: the flags download_with_retry returned for target i
    method,       \* method[i]: the method texts logged for target i
    last_line,    \* last_line[i]: the line written last to downloader.log for target i:
                  \* the position in the chain it belongs to and its rank there
    listed,       \* listed[i]: the lines log_failed appended for target i
    result,       \* result[i]: the (name, flag) pairs try_download returned
    log_errors,   \* the calls of log_message / log_failed that raised OSError, in
                  \* order: the target and whether the exception left try_download
    fetcher,      \* a CutoutFetcher or SpectrumPreview and its call of fetch_single
    resolver,     \* a TargetResolver: its cache and its last call
    photo         \* a RegionBasedPhotometryFetcher and its call of
                  \* query_sdss_per_region

vars ==
    <<dr_list, args, max_workers, main_pc, queue, task, pc, pos, attempt,
      final_path, msg, after, dir, partials, fs_errors, failed_list,
      att_log, att_out,
      nreq, walk, nfail, inflight, dwr, method, last_line, listed, result,
      lists, log_errors, fetcher, resolver, photo>>

inputs == <<dr_list, args, max_workers, lists>>
others == <<log_errors, fetcher, resolver, photo>>
ctl == <<pc, pos, attempt, final_path, msg, after>>
pool == <<main_pc, queue, task>>
files == <<dir, partials, fs_errors, failed_list>>
hist == <<att_log, att_out, nreq, walk, nfail, inflight, dwr, method, last_line, listed, result>>
downloader == <<inputs, pool, ctl, files, hist, log_errors>>

Workers == 1..MaxWorkers
Slots == 1..Len(args)

\* the targets the batches are drawn from
TargetPool ==
    << [plate |-> 751, mjd |-> 52251, fiber |-> 160],
       [plate |-> 266, mjd |-> 51630, fiber |-> 7],
       [plate |-> 1678, mjd |-> 53433, fiber |-> 425] >>

\* the batches of exactly n targets, up to a renaming of the targets: the k-th
\* element is one of the first k targets of the pool, so a batch may name the
\* same target more than once
BatchesOf(n) ==
    {s \in [1..n -> {TargetPool[j] : j \in 1..Len(TargetPool)}] :
        \A k \in 1..n : \E j \in 1..k : j <= Len(TargetPool) /\ s[k] = TargetPool[j]}

\* the non-empty batches of at most n targets
Batches(n) == UNION {BatchesOf(k) : k \in 1..n}

\* a chain whose order depends on the place of the target in the batch
ChainOfBySlot(i) ==
    LET chain == Chain(dr_list, args[i])
    IN  IF i = 1 THEN chain ELSE Tail(chain) \o <<Head(chain)>>

\* the chain and the destination path of target i
ChainOf(i) == Chain(dr_list, args[i])
filepath(i) == filename_base(args[i].plate, args[i].mjd, args[i].fiber)

\* the least of three numbers
Min3(a, b, c) == IF a <= b /\ a <= c THEN a ELSE IF b <= c THEN b ELSE c

\* list(zip(plates, mjds, fibers)): as many triplets as the shortest list has
\* elements
Zip3(l) ==
    [k \in 1..Min3(Len(l.plates), Len(l.mjds), Len(l.fibers)) |->
        [plate |-> l.plates[k], mjd |-> l.mjds[k], fiber |-> l.fibers[k]]]

\* the three argument lists that name the targets of batch b
ListsOf(b) ==
    [plates |-> [k \in 1..Len(b) |-> b[k].plate],
     mjds   |-> [k \in 1..Len(b) |-> b[k].mjd],
     fibers |-> [k \in 1..Len(b) |-> b[k].fiber]]

\* argument lists of equal lengths
EvenLists == {ListsOf(b) : b \in Batches(MaxTargets)}

\* the other components before they are constructed
FetcherIdle ==
    [pc |-> "none", component |-> "none", max_retries |-> 0, attempt |-> 0,
     trace |-> <<>>, ret |-> "none"]
ResolverIdle ==
    [pc |-> "none", cache_results |-> FALSE, cache |-> <<>>, first |-> <<>>,
     call |-> <<>>, ncalls |-> 0]
PhotoIdle ==
    [pc |-> "none", outcomes |-> <<>>, checkpoint |-> FALSE, step |-> 1, i |-> 0,
     chunk |-> <<>>, all |-> <<>>, empty |-> <<>>, failed |-> <<>>, file |-> <<>>,
     ret |-> <<>>]

\* no call of log_message has failed, the other components are not in use
AtRest ==
    /\ log_errors = <<>>
    /\ fetcher = FetcherIdle
    /\ resolver = ResolverIdle
    /\ photo = PhotoIdle

(***************************************************************************)
(* The state after SDSSParallelDownloader(...) was constructed and         *)
(* download_all was called with a batch: nothing started, the destination  *)
(* directory empty.                                                        *)
(***************************************************************************)
\* download_all is entered with the argument lists l
Called(l) ==
    /\ lists = l
    /\ args = Zip3(l)
    /\ max_workers \in 1..MaxWorkers
    /\ dr_list = IF Len(args) = 1 THEN DrList ELSE SubSeq(DrList, 1, MaxReleases)
    /\ main_pc = "call"
    /\ queue = <<>>
    /\ task = [w \in Workers |-> 0]
    /\ pc = [w \in Workers |-> "idle"]
    /\ pos = [w \in Workers |-> 0]
    /\ attempt = [w \in Workers |-> 0]
    /\ final_path = [w \in Workers |-> <<>>]
    /\ msg = [w \in Workers |-> <<>>]
    /\ after = [w \in Workers |-> "idle"]
    /\ dir = <<>>
    /\ partials = 0
    /\ fs_errors = <<>>
    /\ failed_list = <<>>
    /\ att_log = [i \in Slots |-> <<>>]
    /\ att_out = [i \in Slots |-> "none"]
    /\ nreq = [i \in Slots |-> [c \in 1..Len(ChainOf(i)) |-> 0]]
    /\ walk = [i \in Slots |-> <<>>]
    /\ nfail = [i \in Slots |-> [c \in 1..Len(ChainOf(i)) |-> 0]]
    /\ inflight = [i \in Slots |-> 0]
    /\ dwr = [i \in Slots |-> <<>>]
    /\ method = [i \in Slots |-> <<>>]
    /\ last_line = [i \in Slots |-> <<0, 0>>]
    /\ listed = [i \in Slots |-> 0]
    /\ result = [i \in Slots |-> <<>>]

Init == (\E l \in EvenLists : Called(l)) /\ AtRest

(***************************************************************************)
(* download_all: the thread pool.                                          *)
(***************************************************************************)
\* executor.map submits one try_download per element of args, in order
Submit ==
    /\ main_pc = "call"
    /\ main_pc' = "pool"
    /\ queue' = [k \in 1..Len(args) |-> k]
    /\ UNCHANGED <<inputs, others, task, ctl, files, hist>>

\* a pool that starts a thread for every work item, whatever max_workers is
PoolThreadUnbounded(w) == TRUE

\* ThreadPoolExecutor(max_workers=self.max_workers) starts at most
\* max_workers threads
PoolThread(w) == w <= max_workers

\* an idle worker thread takes the next work item and enters try_download:
\* the first candidate, the first attempt.  The idle threads of the pool are
\* interchangeable; the one with the least index takes the item.
Take(w) ==
    /\ main_pc = "pool"
    /\ PoolThread(w)
    /\ task[w] = 0
    /\ \A v \in 1..(w - 1) : task[v] # 0
    /\ queue # <<>>
    /\ task' = [task EXCEPT ![w] = Head(queue)]
    /\ queue' = Tail(queue)
    /\ pc' = [pc EXCEPT ![w] = "get"]
    /\ pos' = [pos EXCEPT ![w] = 1]
    /\ attempt' = [attempt EXCEPT ![w] = 0]
    /\ UNCHANGED <<inputs, others, main_pc, final_path, msg, after, files, hist>>

\* a pool left as soon as every work item was handed to a thread
PoolDrainedNoWait == queue = <<>>

\* list(executor.map(...)) has every result and shutdown(wait=True) has
\* joined the threads: no work item is queued or running
PoolDrained ==
    /\ queue = <<>>
    /\ \A w \in Workers : task[w] = 0

\* the with block is left (shutdown(wait=True)) when no work item is queued
\* or running; download_all then takes the end timestamp and returns
Finish ==
    /\ main_pc = "pool"
    /\ PoolDrained
    /\ main_pc' = "returned"
    /\ UNCHANGED <<inputs, others, queue, task, ctl, files, hist>>

(***************************************************************************)
(* download_with_retry: one attempt.                                       *)
(***************************************************************************)
\* the candidate worker w is on
CurCand(w) == ChainOf(task[w])[pos[w]]

\* log_message(m) is called; the worker goes on at cont when it returns
CallLog(w, m, cont) ==
    /\ pc' = [pc EXCEPT ![w] = "log_open"]
    /\ msg' = [msg EXCEPT ![w] = m]
    /\ after' = [after EXCEPT ![w] = cont]

\* the line of the except branch: the attempt number and the error detail
FailLine(w, e) ==
    [kind |-> "attempt_failed", n |-> attempt[w] + 1, url |-> CurCand(w).url, detail |-> e]

\* a loop that gives the candidate up at once on a non-success status
AfterFailedAttemptStatusFatal(e) == IF e = "status" THEN "cand_failed" ELSE "sleep"

\* where the loop body goes on after an attempt that failed with cause e:
\* the cause is not looked at, every failed attempt ends at time.sleep
AfterFailedAttempt(e) == "sleep"

\* requests.get(url, stream=True, timeout=10) is issued
Request(w) ==
    /\ pc[w] = "get"
    /\ pc' = [pc EXCEPT ![w] = "wait"]
    /\ nreq' = [nreq EXCEPT ![task[w]][pos[w]] = @ + 1]
    /\ walk' = [walk EXCEPT ![task[w]] = Append(@, CurCand(w).url)]
    /\ inflight' = [inflight EXCEPT ![task[w]] = @ + 1]
    /\ att_log' = [att_log EXCEPT ![task[w]] = <<>>]
    /\ att_out' = [att_out EXCEPT ![task[w]] = "none"]
    /\ UNCHANGED <<inputs, others, pool, pos, attempt, final_path, msg, after, files,
                   nfail, dwr, method, last_line, listed, result>>

\* requests.get raises (connection error or timeout): the except branch logs
RespondError(w) ==
    /\ pc[w] = "wait"
    /\ \E e \in {"ConnectionError", "Timeout"} :
          /\ CallLog(w, FailLine(w, e), AfterFailedAttempt(e))
          /\ att_out' = [att_out EXCEPT ![task[w]] = e]
    /\ inflight' = [inflight EXCEPT ![task[w]] = @ - 1]
    /\ nfail' = [nfail EXCEPT ![task[w]][pos[w]] = @ + 1]
    /\ UNCHANGED <<inputs, others, pool, pos, attempt, final_path, files,
                   att_log, nreq, walk, dwr, method, last_line, listed, result>>

\* a response whose status_code is not 200: the if is skipped, nothing is
\* raised, the loop body goes on to time.sleep
RespondStatus(w) ==
    /\ pc[w] = "wait"
    /\ pc' = [pc EXCEPT ![w] = AfterFailedAttempt("status")]
    /\ inflight' = [inflight EXCEPT ![task[w]] = @ - 1]
    /\ nfail' = [nfail EXCEPT ![task[w]][pos[w]] = @ + 1]
    /\ att_out' = [att_out EXCEPT ![task[w]] = "status"]
    /\ UNCHANGED <<inputs, others, pool, pos, attempt, final_path, msg, after, files,
                   att_log, nreq, walk, dwr, method, last_line, listed, result>>

\* a response with status_code 200
Respond200(w) ==
    /\ pc[w] = "wait"
    /\ pc' = [pc EXCEPT ![w] = "unique"]
    /\ inflight' = [inflight EXCEPT ![task[w]] = @ - 1]
    /\ UNCHANGED <<inputs, others, pool, pos, attempt, final_path, msg, after, files,
                   att_log, att_out, nreq, walk, nfail, dwr, method, last_line, listed, result>>

\* final_path = self.get_unique_filename(filepath): the existence checks
Unique(w) ==
    /\ pc[w] = "unique"
    /\ final_path' = [final_path EXCEPT ![w] =
                         get_unique_filename(DOMAIN dir, filepath(task[w]))]
    /\ pc' = [pc EXCEPT ![w] = "open"]
    /\ UNCHANGED <<inputs, others, pool, pos, attempt, msg, after, files, hist>>

\* the file as it is after target i's attempt opened it with mode 'wb': created,
\* or truncated when it exists.  writers: the targets whose attempts opened the
\* file, in order; complete: those that wrote their whole payload into it
Opened(i, path) ==
    IF path \in DOMAIN dir
    THEN [writers |-> Append(dir[path].writers, i), complete |-> {}]
    ELSE [writers |-> <<i>>, complete |-> {}]

\* open(final_path, 'wb')
Open(w) ==
    /\ pc[w] = "open"
    /\ dir' = (final_path[w] :> Opened(task[w], final_path[w])) @@ dir
    /\ pc' = [pc EXCEPT ![w] = "stream"]
    /\ UNCHANGED <<inputs, others, pool, pos, attempt, final_path, msg, after,
                   partials, fs_errors, failed_list, hist>>

\* open(final_path, 'wb') raises OSError (the directory is gone or not
\* writable): no file is created and the except branch logs
OpenFail(w) ==
    /\ pc[w] = "open"
    /\ Len(fs_errors) < MaxFsErrors
    /\ fs_errors' = Append(fs_errors, task[w])
    /\ CallLog(w, FailLine(w, "OSError"), AfterFailedAttempt("OSError"))
    /\ att_out' = [att_out EXCEPT ![task[w]] = "OSError"]
    /\ nfail' = [nfail EXCEPT ![task[w]][pos[w]] = @ + 1]
    /\ final_path' = [final_path EXCEPT ![w] = <<>>]
    /\ UNCHANGED <<inputs, others, pool, pos, attempt, dir, partials, failed_list,
                   att_log, nreq, walk, inflight, dwr, method, last_line, listed, result>>

\* every chunk of r.iter_content was written and the file closed: the success line
StreamDone(w) ==
    /\ pc[w] = "stream"
    /\ dir' = [dir EXCEPT ![final_path[w]].complete = @ \cup {task[w]}]
    /\ CallLog(w, [kind |-> "downloaded", path |-> final_path[w], url |-> CurCand(w).url],
               "succ")
    /\ att_out' = [att_out EXCEPT ![task[w]] = "ok"]
    /\ UNCHANGED <<inputs, others, pool, pos, attempt, final_path, partials, fs_errors,
                   failed_list, att_log, nreq, walk, nfail, inflight, dwr, method, last_line, listed,
                   result>>

\* r.iter_content raises in mid-stream: the file stays as far as it was
\* written and the except branch logs
StreamBreak(w) ==
    /\ pc[w] = "stream"
    /\ partials < MaxPartial
    /\ partials' = partials + 1
    /\ CallLog(w, FailLine(w, "ChunkedEncodingError"),
               AfterFailedAttempt("ChunkedEncodingError"))
    /\ att_out' = [att_out EXCEPT ![task[w]] = "ChunkedEncodingError"]
    /\ nfail' = [nfail EXCEPT ![task[w]][pos[w]] = @ + 1]
    /\ final_path' = [final_path EXCEPT ![w] = <<>>]
    /\ UNCHANGED <<inputs, others, pool, pos, attempt, dir, fs_errors, failed_list,
                   att_log, nreq, walk, inflight, dwr, method, last_line, listed, result>>

\* f.write(chunk) raises OSError (the disk is full): the saving breaks off,
\* the file stays as far as it was written and the except branch logs
WriteFail(w) ==
    /\ pc[w] = "stream"
    /\ partials < MaxPartial
    /\ partials' = partials + 1
    /\ fs_errors' = Append(fs_errors, task[w])
    /\ CallLog(w, FailLine(w, "OSError"), AfterFailedAttempt("OSError"))
    /\ att_out' = [att_out EXCEPT ![task[w]] = "OSError"]
    /\ nfail' = [nfail EXCEPT ![task[w]][pos[w]] = @ + 1]
    /\ final_path' = [final_path EXCEPT ![w] = <<>>]
    /\ UNCHANGED <<inputs, others, pool, pos, attempt, dir, failed_list,
                   att_log, nreq, walk, inflight, dwr, method, last_line, listed, result>>

(***************************************************************************)
(* log_message and log_failed: open(file, "a"), write, close, with no      *)
(* lock around them.                                                       *)
(***************************************************************************)
\* for attempt in range(2): the attempts download_with_retry makes
Attempts == 2

\* the place of a line among the lines of one candidate: the failure line of
\* attempt n, the final-failure line, the success line, the method line, the
\* all-methods-failed line
LineRank(m) ==
    CASE m.kind = "attempt_failed" -> m.n
      [] m.kind = "final_failure"  -> Attempts + 1
      [] m.kind = "downloaded"     -> Attempts + 2
      [] m.kind = "method"         -> Attempts + 3
      [] m.kind = "all_failed"     -> Attempts + 4

\* with open(logfile, "a") as f
LogOpen(w) ==
    /\ pc[w] = "log_open"
    /\ pc' = [pc EXCEPT ![w] = "log_write"]
    /\ UNCHANGED <<inputs, others, pool, pos, attempt, final_path, msg, after, files, hist>>

\* f.write(line), the file is closed, log_message returns
LogWrite(w) ==
    /\ pc[w] = "log_write"
    /\ att_log' = [att_log EXCEPT ![task[w]] = Append(@, msg[w])]
    /\ method' = [method EXCEPT ![task[w]] =
                     IF msg[w].kind = "method" THEN Append(@, msg[w].method) ELSE @]
    /\ last_line' = [last_line EXCEPT ![task[w]] = <<pos[w], LineRank(msg[w])>>]
    /\ pc' = [pc EXCEPT ![w] = after[w]]
    /\ msg' = [msg EXCEPT ![w] = <<>>]
    /\ after' = [after EXCEPT ![w] = "idle"]
    /\ UNCHANGED <<inputs, others, pool, pos, attempt, final_path, files,
                   att_out, nreq, walk, nfail, inflight, dwr, listed, result>>

\* the file opened with mode "w": the write replaces what the file held
AppendLineTruncating(lines, line) == <<line>>

\* a write to a file opened with mode "a": the line goes after the lines
\* the file holds
AppendLine(lines, line) == Append(lines, line)

\* log_failed: with open(failfile, "a") as f
FailOpen(w) ==
    /\ pc[w] = "fail_open"
    /\ pc' = [pc EXCEPT ![w] = "fail_write"]
    /\ UNCHANGED <<inputs, others, pool, pos, attempt, final_path, msg, after, files, hist>>

\* log_failed: f.write(line), the file is closed
FailWrite(w) ==
    /\ pc[w] = "fail_write"
    /\ failed_list' = AppendLine(failed_list, args[task[w]])
    /\ listed' = [listed EXCEPT ![task[w]] = @ + 1]
    /\ pc' = [pc EXCEPT ![w] = "ret_false"]
    /\ UNCHANGED <<inputs, others, pool, pos, attempt, final_path, msg, after, dir, partials,
                   fs_errors, att_log, att_out, nreq, walk, nfail, inflight, dwr, method, last_line,
                   result>>

(***************************************************************************)
(* download_with_retry: the loop around the attempts, and its callers in   *)
(* try_download.                                                           *)
(***************************************************************************)
\* a loop that gives up after the first attempt
HasNextAttemptNever(a) == FALSE

\* a loop that goes round once more: range(3)
HasNextAttemptOneMore(a) == a < Attempts

\* the range has a value after a: the loop body runs again
HasNextAttempt(a) == a + 1 < Attempts

\* download_with_retry writing the all-methods-failed line of try_download
FinalLineAllFailed(w) == [kind |-> "all_failed", name |-> filepath(task[w])]

\* the line written after the loop
FinalLine(w) == [kind |-> "final_failure", url |-> CurCand(w).url]

\* time.sleep(5) at the end of the loop body, then the next attempt or,
\* the range used up, the final-failure line
Sleep(w) ==
    /\ pc[w] = "sleep"
    /\ IF HasNextAttempt(attempt[w])
       THEN /\ attempt' = [attempt EXCEPT ![w] = @ + 1]
            /\ pc' = [pc EXCEPT ![w] = "get"]
            /\ UNCHANGED <<msg, after>>
       ELSE /\ CallLog(w, FinalLine(w), "cand_failed")
            /\ UNCHANGED attempt
    /\ att_log' = [att_log EXCEPT ![task[w]] = <<>>]
    /\ att_out' = [att_out EXCEPT ![task[w]] = "none"]
    /\ UNCHANGED <<inputs, others, pool, pos, final_path, files,
                   nreq, walk, nfail, inflight, dwr, method, last_line, listed, result>>

\* try_download with the "if success: return" dropped: the chain goes on
OnSuccessFallThrough == "cand_failed"

\* where try_download goes on when download_with_retry returned success,
\* once the method line is written: return name, True
OnSuccess == "ret_true"

\* every tier logging the text of the fast path
SuccessMethodFastPath(w) == ChainOf(task[w])[1].method

\* the method text try_download logs for the candidate that succeeded
SuccessMethod(w) == CurCand(w).method

\* download_with_retry returned (True, basename(final_path)): the method line
Succeeded(w) ==
    /\ pc[w] = "succ"
    /\ dwr' = [dwr EXCEPT ![task[w]] = Append(@, TRUE)]
    /\ CallLog(w, [kind |-> "method", name |-> final_path[w], method |-> SuccessMethod(w)],
               OnSuccess)
    /\ att_log' = [att_log EXCEPT ![task[w]] = <<>>]
    /\ att_out' = [att_out EXCEPT ![task[w]] = "none"]
    /\ UNCHANGED <<inputs, others, pool, pos, attempt, final_path, files,
                   nreq, walk, nfail, inflight, method, last_line, listed, result>>

\* try_download returning failure without the call of log_failed
OnExhaustedSkipList == "ret_false"

\* where try_download goes on after the all-methods-failed line: log_failed
OnExhausted == "fail_open"

\* download_with_retry returned (False, ""): the next candidate of the chain
\* or, the chain used up, the all-methods-failed line and log_failed
CandidateFailed(w) ==
    /\ pc[w] = "cand_failed"
    /\ dwr' = [dwr EXCEPT ![task[w]] = Append(@, FALSE)]
    /\ IF pos[w] < Len(ChainOf(task[w]))
       THEN /\ pos' = [pos EXCEPT ![w] = @ + 1]
            /\ attempt' = [attempt EXCEPT ![w] = 0]
            /\ pc' = [pc EXCEPT ![w] = "get"]
            /\ UNCHANGED <<msg, after>>
       ELSE /\ CallLog(w, [kind |-> "all_failed", name |-> filepath(task[w])], OnExhausted)
            /\ UNCHANGED <<pos, attempt>>
    /\ att_log' = [att_log EXCEPT ![task[w]] = <<>>]
    /\ UNCHANGED <<inputs, others, pool, final_path, files,
                   att_out, nreq, walk, nfail, inflight, method, last_line, listed, result>>

\* a worker thread that ends with its first work item
ReleaseNever(w) == task

\* the pool's worker is free again once the work item has returned
Release(w) == [task EXCEPT ![w] = 0]

\* try_download returns: (name, True) or (filename_base, False)
Return(w) ==
    /\ pc[w] \in {"ret_true", "ret_false"}
    /\ result' = [result EXCEPT ![task[w]] =
                     Append(@, IF pc[w] = "ret_true"
                               THEN [name |-> final_path[w], flag |-> TRUE]
                               ELSE [name |-> filepath(task[w]), flag |-> FALSE])]
    /\ task' = Release(w)
    /\ pc' = [pc EXCEPT ![w] = "idle"]
    /\ pos' = [pos EXCEPT ![w] = 0]
    /\ attempt' = [attempt EXCEPT ![w] = 0]
    /\ final_path' = [final_path EXCEPT ![w] = <<>>]
    /\ att_log' = [att_log EXCEPT ![task[w]] = <<>>]
    /\ UNCHANGED <<inputs, others, main_pc, queue, msg, after, files,
                   att_out, nreq, walk, nfail, inflight, dwr, method, last_line, listed>>

Step(w) ==
    \/ Take(w)
    \/ Request(w)
    \/ RespondError(w)
    \/ RespondStatus(w)
    \/ Respond200(w)
    \/ Unique(w)
    \/ Open(w)
    \/ OpenFail(w)
    \/ StreamDone(w)
    \/ StreamBreak(w)
    \/ WriteFail(w)
    \/ LogOpen(w)
    \/ LogWrite(w)
    \/ Sleep(w)
    \/ Succeeded(w)
    \/ CandidateFailed(w)
    \/ FailOpen(w)
    \/ FailWrite(w)
    \/ Return(w)

Next ==
    \/ Submit
    \/ \E w \in Workers : Step(w)
    \/ Finish

Spec == Init /\ [][Next]_vars

\* The threads are scheduled by the operating system, and every request
\* returns or times out (timeout=10): no enabled step is put off for ever.
Fairness ==
    /\ WF_vars(Submit)
    /\ WF_vars(Finish)
    /\ \A w \in Workers : WF_vars(Step(w))

\* the batches larger than the worker budget, under that scheduling
InitOverBudget == Init /\ max_workers < Len(args)

FairSpec == InitOverBudget /\ [][Next]_vars /\ Fairness

\* a transport whose answer to every fast-path request is a status other than
\* 200 (the archive has no such file under the DR16 path: HTTP 404)
FastPathNon200(w) ==
    (pc[w] = "wait" /\ pos[w] = 1) => pc'[w] = "sleep"

NextFastPathFails ==
    \/ Submit
    \/ \E w \in Workers : Step(w) /\ FastPathNon200(w)
    \/ Finish

\* the runs in which no target is found under the fast path
SpecFastPathFails == Init /\ [][NextFastPathFails]_vars

\* a transport none of whose answers carries a payload: every request raises
\* or is answered with a status other than 200
NoPayload(w) == pc[w] = "wait" => pc'[w] # "unique"

NextAllFail ==
    \/ Submit
    \/ \E w \in Workers : Step(w) /\ NoPayload(w)
    \/ Finish

FairnessAllFail ==
    /\ WF_vars(Submit)
    /\ WF_vars(Finish)
    /\ \A w \in Workers : WF_vars(Step(w) /\ NoPayload(w))

\* the runs in which every network attempt fails, under the scheduling of
\* Fairness
SpecAllFail == Init /\ [][NextAllFail]_vars /\ FairnessAllFail

(***************************************************************************)
(* Vocabulary of the properties.                                           *)
(***************************************************************************)
\* target i of the batch is being resolved by some worker
Running(i) == \E w \in Workers : task[w] = i

\* the worker resolving target i
WorkerOf(i) == CHOOSE w \in Workers : task[w] = i

\* target i was taken from the queue and its try_download is over
Finished(i) ==
    /\ main_pc # "call"
    /\ \A k \in 1..Len(queue) : queue[k] # i
    /\ ~Running(i)

\* every flag download_with_retry returned for target i is False
AllFalse(i) == \A c \in 1..Len(dwr[i]) : ~dwr[i][c]

(***************************************************************************)
(* C1.  One call of try_download ends in exactly one terminal outcome: it  *)
(* returns once, either True after a download_with_retry that returned     *)
(* success (and then the target is not put on the failed list by this      *)
(* call), or False after every candidate of the chain returned failure;    *)
(* and a target whose work item is over has returned.                      *)
(***************************************************************************)
C1_OneTerminalOutcome ==
    \A i \in Slots :
        /\ Len(result[i]) <= 1
        /\ Finished(i) <=> Len(result[i]) = 1
        /\ result[i] # <<>> =>
              \/ /\ result[i][1].flag
                 /\ dwr[i] # <<>>
                 /\ dwr[i][Len(dwr[i])]
                 /\ \A c \in 1..(Len(dwr[i]) - 1) : ~dwr[i][c]
                 /\ listed[i] = 0
              \/ /\ ~result[i][1].flag
                 /\ Len(dwr[i]) = Len(ChainOf(i))
                 /\ AllFalse(i)
                 /\ listed[i] = 1

\* both outcomes occur: a batch with one target succeeded and one exhausted
C1_Witness ==
    /\ main_pc = "returned"
    /\ \E i \in Slots : result[i] # <<>> /\ result[i][1].flag
    /\ \E i \in Slots : result[i] # <<>> /\ ~result[i][1].flag

\* an attempt on candidate k of target i succeeded: download_with_retry has
\* returned True for it, or is about to (the payload is written)
SuccessAt(i, k) ==
    \/ k <= Len(dwr[i]) /\ dwr[i][k]
    \/ Running(i) /\ att_out[i] = "ok" /\ pos[WorkerOf(i)] = k

(***************************************************************************)
(* C2.  First-success stop: once an attempt on candidate k of a target     *)
(* has succeeded, every candidate before k has failed both its attempts,   *)
(* the successful request is the last one issued for the target (no        *)
(* further attempt on k, none on a later candidate), the only method       *)
(* logged for the target is that of candidate k, and try_download, when    *)
(* it has returned, has returned True with that method logged.             *)
(***************************************************************************)
C2_FirstSuccessStop ==
    \A i \in Slots : \A k \in 1..Len(nreq[i]) :
        SuccessAt(i, k) =>
            /\ \A c \in 1..(k - 1) : nreq[i][c] = 2 /\ nfail[i][c] = 2
            /\ nreq[i][k] = nfail[i][k] + 1
            /\ \A c \in (k + 1)..Len(nreq[i]) : nreq[i][c] = 0
            /\ inflight[i] = 0
            /\ method[i] # <<>> => method[i] = <<ChainOf(i)[k].method>>
            /\ result[i] # <<>> => result[i][1].flag /\ method[i] # <<>>

\* the first two candidates failed, the third succeeded, and the call is over
C2_Witness ==
    \E i \in Slots :
        /\ dwr[i] = <<FALSE, FALSE, TRUE>>
        /\ result[i] # <<>>
        /\ result[i][1].flag
        /\ method[i] = <<ChainOf(i)[3].method>>
        /\ main_pc = "returned"

\* the requests issued for target i to URL u, over the positions 1..c of its chain
RECURSIVE UrlRequests(_, _, _, _)
UrlRequests(i, chain, u, c) ==
    IF c = 0 THEN 0
    ELSE (IF chain[c].url = u THEN nreq[i][c] ELSE 0) + UrlRequests(i, chain, u, c - 1)

\* try_download has returned failure for target i
Exhausted(i) == result[i] # <<>> /\ ~result[i][1].flag

(***************************************************************************)
(* C3.  When try_download has returned failure, every candidate of the     *)
(* chain was attempted exactly twice, no candidate URL was requested more  *)
(* or fewer than 2 times, and the call put the target on the failed list   *)
(* exactly once.                                                           *)
(***************************************************************************)
C3_ExhaustionTwoPerUrl ==
    \A i \in Slots :
        Exhausted(i) =>
            LET chain == ChainOf(i)
            IN  /\ \A c \in 1..Len(chain) : nreq[i][c] = 2 /\ nfail[i][c] = 2
                /\ \A c \in 1..Len(chain) :
                       UrlRequests(i, chain, chain[c].url, Len(chain)) = 2
                /\ listed[i] = 1

(***************************************************************************)
(* C5.  No file of the destination directory is opened for writing by      *)
(* more than one attempt: no two downloads write to the same path and no   *)
(* download overwrites a file another worker wrote.                        *)
(***************************************************************************)
C5_UniqueAtWrite ==
    \A p \in DOMAIN dir : Len(dir[p].writers) <= 1

(***************************************************************************)
(* C7.  At any moment at most one worker is inside the                     *)
(* open-append-write-close of downloader.log, and at most one inside that  *)
(* of failed_list.txt.                                                     *)
(***************************************************************************)
C7_OneWriterAtATime ==
    /\ Cardinality({w \in Workers : pc[w] = "log_write"}) <= 1
    /\ Cardinality({w \in Workers : pc[w] = "fail_write"}) <= 1

(***************************************************************************)
(* C10.  Every attempt produces exactly one audit-log line: when an        *)
(* attempt has failed (the worker is at the sleep that ends the loop       *)
(* body), the log holds one failure line for it, with the attempt number   *)
(* and the error detail; when it has succeeded, one success line.          *)
(***************************************************************************)
C10_OneLinePerAttempt ==
    \A w \in Workers :
        /\ pc[w] = "sleep" =>
              /\ Len(att_log[task[w]]) = 1
              /\ att_log[task[w]][1].kind = "attempt_failed"
              /\ att_log[task[w]][1].n = attempt[w] + 1
              /\ att_log[task[w]][1].detail = att_out[task[w]]
        /\ pc[w] = "succ" =>
              /\ Len(att_log[task[w]]) = 1
              /\ att_log[task[w]][1].kind = "downloaded"

\* every target of the batch has its terminal outcome
AllResolved == \A i \in Slots : result[i] # <<>>

(***************************************************************************)
(* C4.  Batch liveness: when max_workers is less than the number of        *)
(* targets of the batch, every target of the batch eventually has its      *)
(* terminal outcome (its try_download has returned).                       *)
(***************************************************************************)
C4_BatchLiveness == (max_workers < Len(args)) => <>AllResolved

\* a batch larger than the worker budget, all of it resolved
C4_Witness ==
    /\ max_workers < Len(args)
    /\ AllResolved
    /\ main_pc = "returned"

\* the name of the j-th file written for the destination path f
SuffixName(f, j) ==
    IF j = 1 THEN f
    ELSE SubSeq(f, 1, Len(f) - Len(Chars_fits)) \o <<"_">> \o Str(j) \o Chars_fits

\* the files of the directory written for the destination path f
FilesOf(f) == {p \in DOMAIN dir : filepath(dir[p].writers[1]) = f}

C8_InOrderOneAtATime ==
    \A i \in Slots :
        /\ inflight[i] <= 1
        /\ \A c \in 2..Len(nreq[i]) :
               nreq[i][c] > 0 => nreq[i][c - 1] = 2 /\ nfail[i][c - 1] = 2

\* the request for the third candidate of a target is in flight
C8_Witness ==
    \E i \in Slots :
        /\ Len(nreq[i]) >= 3
        /\ inflight[i] = 1
        /\ nreq[i][3] = 1
        /\ nfail[i][2] = 2

(***************************************************************************)
(* C9.  download_with_retry never makes more than 2 attempts on a          *)
(* candidate; it has reported failure for a candidate only after 2 failed  *)
(* attempts; when it has reported success, the successful attempt was the  *)
(* last one: attempt 1 with no attempt 2, or attempt 2 after a failed      *)
(* attempt 1.                                                              *)
(***************************************************************************)
C9_TwoAttempts ==
    \A i \in Slots : \A c \in 1..Len(nreq[i]) :
        /\ nreq[i][c] <= 2
        /\ nfail[i][c] <= nreq[i][c]
        /\ c <= Len(dwr[i]) =>
              IF dwr[i][c]
              THEN nreq[i][c] = nfail[i][c] + 1
              ELSE nreq[i][c] = 2 /\ nfail[i][c] = 2

\* a candidate that failed twice, then one that failed once and succeeded
\* on its second attempt
C9_Witness ==
    \E i \in Slots :
        /\ dwr[i] = <<FALSE, TRUE>>
        /\ nreq[i][2] = 2
        /\ nfail[i][2] = 1

(***************************************************************************)
(* C11.  A failure of the local filesystem while saving a payload (open    *)
(* or write raised OSError) is not retried: no request is issued for the   *)
(* target after it.                                                        *)
(***************************************************************************)
C11_FsFailureNotRetried ==
    \A k \in 1..Len(fs_errors) : inflight[fs_errors[k]] = 0

(***************************************************************************)
(* C12.  The outcome try_download returns carries a filename only when it  *)
(* is a success: a failure outcome has the empty name, and the name of a   *)
(* success outcome is that of a file of the destination directory.         *)
(***************************************************************************)
C12_FilenameOnlyOnSuccess ==
    \A i \in Slots :
        result[i] # <<>> =>
            IF result[i][1].flag
            THEN result[i][1].name \in DOMAIN dir
            ELSE result[i][1].name = <<>>

\* no other target of the batch has the identity of target i
OnlyOnce(i) == \A j \in Slots : args[j] = args[i] => j = i

(***************************************************************************)
(* C13.  A target that occurs once in the batch, whose fast-path requests  *)
(* are all answered with a non-success status and whose first succeeding   *)
(* candidate k lies after the fast path, the destination directory being   *)
(* empty at the start: try_download returns success, the returned file is  *)
(* spec-<plate:04d>-<mjd>-<fiber:05d>.fits without suffix, it holds the     *)
(* payload, and the method logged is that of candidate k and of no other   *)
(* candidate of the chain.                                                 *)
(***************************************************************************)
C13_FallbackSavesPlainName ==
    \A i \in Slots : \A k \in 2..Len(nreq[i]) :
        (OnlyOnce(i) /\ SuccessAt(i, k) /\ result[i] # <<>>) =>
            LET chain == ChainOf(i)
            IN  /\ result[i][1] = [name |-> filepath(i), flag |-> TRUE]
                /\ filepath(i) \in DOMAIN dir
                /\ i \in dir[filepath(i)].complete
                /\ method[i] = <<chain[k].method>>
                /\ \A c \in 1..Len(chain) : c # k => chain[c].method # chain[k].method

\* the URLs of a chain, each as often as download_with_retry attempts it
WalkToExhaustion(chain) ==
    [k \in 1..(Attempts * Len(chain)) |-> chain[((k - 1) \div Attempts) + 1].url]

(***************************************************************************)
(* C14.  The URL sequence walked for a target is deterministic: a          *)
(* resolution driven to exhaustion has requested the URLs of the chain of  *)
(* its target and catalog, in chain order, whatever the transport          *)
(* answered; so two exhausted resolutions of the same target in one batch  *)
(* have requested the same URLs in the same order, however the workers     *)
(* were interleaved.                                                       *)
(***************************************************************************)
C14_DeterministicWalk ==
    /\ \A i \in Slots :
           Exhausted(i) => walk[i] = WalkToExhaustion(Chain(dr_list, args[i]))
    /\ \A i, j \in Slots :
           (args[i] = args[j] /\ Exhausted(i) /\ Exhausted(j)) => walk[i] = walk[j]

\* two workers exhausted the same target side by side, one of them after a
\* payload that broke off
C14_Witness ==
    /\ Len(args) = 2
    /\ args[1] = args[2]
    /\ max_workers = 2
    /\ Exhausted(1)
    /\ Exhausted(2)
    /\ partials = 1
    /\ walk[1] # <<>>
    /\ walk[1] = walk[2]

\* how often URL u was requested for target i
TimesRequested(i, u) == Cardinality({k \in 1..Len(walk[i]) : walk[i][k] = u})

\* the chain positions of target i for which a request was issued
Requested(i) == {c \in 1..Len(nreq[i]) : nreq[i][c] > 0}

(***************************************************************************)
(* C15.  The chain is deduplicated: the URL of the candidate a target's    *)
(* resolution has reached occurs at no earlier position of its chain, and  *)
(* the URL requested last has been requested at most 2 times; so, over the *)
(* whole resolution, no URL occurs at two positions that are tried and no  *)
(* URL is requested more than 2 times.                                     *)
(***************************************************************************)
C15_ChainDeduplicated ==
    \A i \in Slots :
        walk[i] # <<>> =>
            LET chain == ChainOf(i)
                last  == CHOOSE c \in Requested(i) : \A a \in Requested(i) : a <= c
            IN  /\ \A a \in 1..(last - 1) : chain[a].url # chain[last].url
                /\ TimesRequested(i, walk[i][Len(walk[i])]) <= Attempts

\* the number of (release, pipeline version) pairs of the releases drs
RECURSIVE NumPairs(_)
NumPairs(drs) ==
    IF drs = <<>> THEN 0 ELSE Len(run2d_multi[Head(drs)]) + NumPairs(Tail(drs))

\* the k-th (release, pipeline version) pair: releases in the order of drs,
\* the versions of a release in the order they are listed for it
RECURSIVE PairAt(_, _)
PairAt(drs, k) ==
    IF k <= Len(run2d_multi[Head(drs)])
    THEN [dr |-> Head(drs), run2d |-> run2d_multi[Head(drs)][k]]
    ELSE PairAt(Tail(drs), k - Len(run2d_multi[Head(drs)]))

\* the URL the tier ordering puts at position c of the chain of target t:
\* the fast path, the sdss.org path of every pair, the DR16 API, then for
\* every release its SAS path followed by its API path
TierOrderUrl(drs, t, c) ==
    LET n == NumPairs(drs)
        r == ((c - n - 3) \div 2) + 1
    IN  IF c = 1 THEN priority_url(t.plate, t.mjd, t.fiber)
        ELSE IF c <= n + 1
             THEN construct_sdss_org_url(PairAt(drs, c - 1).dr, PairAt(drs, c - 1).run2d,
                                         t.plate, t.mjd, t.fiber)
        ELSE IF c = n + 2 THEN construct_api_url("dr16", t.plate, t.mjd, t.fiber)
        ELSE IF (c - n - 3) % 2 = 0
             THEN construct_sas_url(drs[r], t.plate, t.mjd, t.fiber)
        ELSE construct_api_url(drs[r], t.plate, t.mjd, t.fiber)

(***************************************************************************)
(* C16.  Tier ordering: the URL requested last for a target is the one     *)
(* the tier order puts at the position its resolution has reached (fast    *)
(* path; sdss.org path of every release and version, releases in catalog   *)
(* order, versions as listed; the DR16 API; then per release the SAS path  *)
(* followed by the API path), and every candidate before that position     *)
(* was requested twice and has failed twice.                               *)
(***************************************************************************)
C16_TierOrder ==
    \A i \in Slots :
        walk[i] # <<>> =>
            LET last == CHOOSE c \in Requested(i) : \A a \in Requested(i) : a <= c
            IN  /\ walk[i][Len(walk[i])] = TierOrderUrl(dr_list, args[i], last)
                /\ \A a \in 1..(last - 1) :
                       /\ nreq[i][a] = Attempts
                       /\ nfail[i][a] = Attempts
                       /\ a <= Len(dwr[i]) /\ ~dwr[i][a]

\* the full sweep reached its last candidate, the API path of the last
\* release of the shipped catalog
C16_Witness ==
    /\ dr_list = DrList
    /\ Len(nreq[1]) = 1 + NumPairs(DrList) + 1 + 2 * Len(DrList)
    /\ nreq[1][Len(nreq[1])] = 1
    /\ inflight[1] = 1
    /\ walk[1][Len(walk[1])] = construct_api_url("dr8", args[1].plate, args[1].mjd, args[1].fiber)

\* the targets in the "trying candidate" state
Trying == {i \in Slots : Running(i)}

\* worker w changes the target it works on only by taking a target that was
\* never started, at the head of its chain, or by returning from try_download
TakesOrReturns(w) ==
    task'[w] # task[w] =>
        IF task[w] = 0
        THEN /\ walk[task'[w]] = <<>>
             /\ dwr[task'[w]] = <<>>
             /\ result[task'[w]] = <<>>
             /\ \A v \in Workers : task[v] # task'[w]
             /\ pc'[w] = "get" /\ pos'[w] = 1 /\ attempt'[w] = 0
        ELSE /\ pc[w] \in {"ret_true", "ret_false"}
             /\ task'[w] = 0
             /\ Len(result'[task[w]]) = 1

(***************************************************************************)
(* C17.  Bounded worker budget: at every moment at most max_workers        *)
(* targets are being tried, no target is on two workers, and a worker      *)
(* that has a target stays on it until try_download returns its terminal   *)
(* outcome: it takes only targets never started and leaves a target only   *)
(* by returning.                                                           *)
(***************************************************************************)
C17_BoundedBudget ==
    /\ [](/\ Cardinality(Trying) <= max_workers
          /\ \A v, w \in Workers : (v # w /\ task[v] # 0) => task[v] # task[w]
          /\ \A w \in Workers : (task[w] = 0) <=> (pc[w] = "idle"))
    /\ [][\A w \in Workers : TakesOrReturns(w)]_vars

\* a budget of one worker: the first target has its outcome, the second is
\* in its chain on the same worker and nothing else runs
C17_Witness ==
    /\ max_workers = 1
    /\ Len(args) = 2
    /\ result[1] # <<>>
    /\ Trying = {2}
    /\ inflight[2] = 1
    /\ Len(walk[2]) >= 3

\* the targets of the batch are pairwise distinct
PairwiseDistinct == \A i, j \in Slots : args[i] = args[j] => i = j

\* the candidates of target i for which an attempt was answered with a
\* payload that was saved whole (the others count one failure per request)
SavedAt(i) == {k \in 1..Len(nreq[i]) : nreq[i][k] > nfail[i][k]}

\* the files left by the attempts for target i whose saving broke off
OwnBreaks(i) ==
    {p \in DOMAIN dir : dir[p].writers[1] = i /\ i \notin dir[p].complete}

(***************************************************************************)
(* C18.  Target independence: in a batch of pairwise distinct targets the  *)
(* outcome of a target is a function of the answers to its own requests:   *)
(* success exactly when one of its attempts was answered with a payload    *)
(* saved whole, the method that of the candidate of that attempt, the      *)
(* name its base filename (with the suffix that follows the files its own  *)
(* broken attempts left), failure with its base filename otherwise; and    *)
(* every file was opened by one target only.  Nothing in it refers to      *)
(* another target or to the order of the workers' steps.                   *)
(***************************************************************************)
C18_TargetIndependence ==
    PairwiseDistinct =>
        /\ \A p \in DOMAIN dir : Len(dir[p].writers) = 1
        /\ \A i \in Slots :
               result[i] # <<>> =>
                   IF SavedAt(i) # {}
                   THEN /\ Cardinality(SavedAt(i)) = 1
                        /\ result[i][1] =
                               [name |-> SuffixName(filepath(i), Cardinality(OwnBreaks(i)) + 1),
                                flag |-> TRUE]
                        /\ method[i] = <<ChainOf(i)[CHOOSE k \in SavedAt(i) : TRUE].method>>
                   ELSE /\ result[i][1] = [name |-> filepath(i), flag |-> FALSE]
                        /\ method[i] = <<>>
                        /\ listed[i] = 1

\* two distinct targets on two workers, the first exhausted, the second
\* saved after one of its own attempts broke off
C18_Witness ==
    /\ Len(args) = 2
    /\ args[1] # args[2]
    /\ max_workers = 2
    /\ Exhausted(1)
    /\ result[2] # <<>>
    /\ result[2][1] = [name |-> SuffixName(filepath(2), 2), flag |-> TRUE]

(***************************************************************************)
(* C19.  download_all has returned only when every target of the batch    *)
(* has its terminal outcome: no target is queued or being resolved, no     *)
(* worker is inside a request, a file write or a log write, and no step    *)
(* of the batch is taken after the return.                                 *)
(***************************************************************************)
C19_ReturnsAfterAll ==
    /\ [](main_pc = "returned" =>
             /\ AllResolved
             /\ queue = <<>>
             /\ Trying = {}
             /\ \A w \in Workers : pc[w] = "idle" /\ msg[w] = <<>>
             /\ \A i \in Slots : inflight[i] = 0
             /\ \A p \in DOMAIN dir : \A k \in 1..Len(dir[p].writers) :
                    result[dir[p].writers[k]] # <<>>)
    /\ [][main_pc # "returned"]_vars

\* download_all has returned from a batch of two targets run side by side,
\* one saved and one put on the failed list
C19_Witness ==
    /\ main_pc = "returned"
    /\ Len(args) = 2
    /\ max_workers = 2
    /\ DOMAIN dir # {}
    /\ failed_list # <<>>

\* the lines of failed_list.txt that name target t
ListedLines(t) == {k \in 1..Len(failed_list) : failed_list[k] = t}

(***************************************************************************)
(* C20.  A run always completes: when every network attempt fails,         *)
(* download_all eventually returns, and when it has returned every target  *)
(* of the batch was resolved to the failure outcome and the failed list    *)
(* holds every target of the batch, one line for each place it has in the  *)
(* batch.                                                                  *)
(***************************************************************************)
C20_AlwaysCompletes ==
    /\ <>(main_pc = "returned")
    /\ [](main_pc = "returned" =>
             /\ \A i \in Slots : Exhausted(i) /\ listed[i] = 1
             /\ Len(failed_list) = Len(args)
             /\ \A i \in Slots :
                    Cardinality(ListedLines(args[i])) =
                        Cardinality({j \in Slots : args[j] = args[i]}))

\* two targets exhausted side by side, both on the failed list, and
\* download_all has returned
C20_Witness ==
    /\ main_pc = "returned"
    /\ Len(args) = 2
    /\ max_workers = 2
    /\ Exhausted(1) /\ Exhausted(2)
    /\ Len(failed_list) = 2
    /\ DOMAIN dir = {}

\* download_all has no return statement: the list of the results is dropped
\* and the caller gets None
download_all_value == "None"

(***************************************************************************)
(* C21.  When download_all has returned, what it returns is a run summary  *)
(* of the batch of K targets: attempted = K, succeeded and failed the      *)
(* numbers of targets whose try_download returned True and False, and      *)
(* succeeded + failed = K.                                                 *)
(***************************************************************************)
C21_RunSummary ==
    main_pc = "returned" =>
        /\ download_all_value # "None"
        /\ download_all_value.attempted = Len(args)
        /\ download_all_value.succeeded =
               Cardinality({i \in Slots : result[i] # <<>> /\ result[i][1].flag})
        /\ download_all_value.failed = Cardinality({i \in Slots : Exhausted(i)})
        /\ download_all_value.succeeded + download_all_value.failed = Len(args)

\* the causes of a failed network attempt
TransportCauses == {"ConnectionError", "Timeout", "status"}

\* worker w leaves the sleep that ends the loop body: the second attempt on
\* the same candidate or, the budget spent, the final-failure line and the
\* return of failure
LeavesSleep(w) ==
    (pc[w] = "sleep" /\ pc'[w] # "sleep") =>
        IF attempt[w] + 1 < Attempts
        THEN pc'[w] = "get" /\ pos'[w] = pos[w] /\ attempt'[w] = attempt[w] + 1
        ELSE /\ pc'[w] = "log_open"
             /\ msg'[w].kind = "final_failure"
             /\ after'[w] = "cand_failed"
             /\ pos'[w] = pos[w]

\* the controller goes on after a candidate that failed: the next candidate
\* of the chain, first attempt, or the end of the chain
LeavesFailedCandidate(w) ==
    (pc[w] = "cand_failed" /\ pc'[w] # "cand_failed") =>
        IF pos[w] < Len(nreq[task[w]])
        THEN pc'[w] = "get" /\ pos'[w] = pos[w] + 1 /\ attempt'[w] = 0
        ELSE pc'[w] = "log_open" /\ msg'[w].kind = "all_failed"

(***************************************************************************)
(* C22.  The cause of a failed attempt is not inspected: after a timeout,  *)
(* a connection error or a non-success status alike the worker is in the   *)
(* tail of the loop body (the failure line, then the sleep) with one       *)
(* attempt of the candidate's budget of 2 consumed; from the sleep it      *)
(* makes the second attempt or, the budget spent, reports the candidate's  *)
(* failure; and after a failed candidate the controller takes the next     *)
(* candidate of the chain, or ends the chain when it was the last.         *)
(***************************************************************************)
C22_CauseNotInspected ==
    /\ [](\A w \in Workers :
            (task[w] # 0 /\ att_out[task[w]] \in TransportCauses) =>
                /\ \/ pc[w] = "sleep"
                   \/ pc[w] \in {"log_open", "log_write"} /\ after[w] = "sleep"
                /\ nfail[task[w]][pos[w]] = attempt[w] + 1
                /\ nreq[task[w]][pos[w]] = attempt[w] + 1)
    /\ [][\A w \in Workers : LeavesSleep(w) /\ LeavesFailedCandidate(w)]_vars

\* the second attempt on the second candidate has timed out
C22_Witness ==
    \E w \in Workers :
        /\ pc[w] = "sleep"
        /\ att_out[task[w]] = "Timeout"
        /\ pos[w] = 2
        /\ attempt[w] = 1

(***************************************************************************)
(* C23.  The failed-target list is append-only and, after a batch, has     *)
(* gained exactly one line for each resolution that ended exhausted and    *)
(* none for a resolution that succeeded: every step leaves the lines of    *)
(* the list as they are and adds at most one line at its end; a returned   *)
(* resolution has one line when it failed and none when it succeeded; and  *)
(* when download_all has returned the list holds, for every target, as     *)
(* many lines as resolutions of that target were exhausted.                *)
(***************************************************************************)
C23_FailedListAppendOnly ==
    /\ [][/\ Len(failed_list') \in {Len(failed_list), Len(failed_list) + 1}
          /\ SubSeq(failed_list', 1, Len(failed_list)) = failed_list]_vars
    /\ [](\A i \in Slots :
            /\ listed[i] <= 1
            /\ result[i] # <<>> => listed[i] = (IF result[i][1].flag THEN 0 ELSE 1))
    /\ [](main_pc = "returned" =>
            /\ Len(failed_list) = Cardinality({i \in Slots : Exhausted(i)})
            /\ \A i \in Slots :
                   Cardinality(ListedLines(args[i])) =
                       Cardinality({j \in Slots : args[j] = args[i] /\ Exhausted(j)}))

\* a batch whose first target was saved and whose second was exhausted: the
\* list holds the second target and nothing else
C23_Witness ==
    /\ main_pc = "returned"
    /\ Len(args) = 2
    /\ result[1][1].flag
    /\ Exhausted(2)
    /\ failed_list = <<args[2]>>

\* line a comes before line b in the order of a resolution: an earlier
\* candidate, or the same candidate and a lower rank
LineBefore(a, b) == a[1] < b[1] \/ (a[1] = b[1] /\ a[2] < b[2])

\* the lines that end a resolution: the method line, the all-methods-failed line
TerminalLine(a) == a[2] \in {Attempts + 3, Attempts + 4}

\* a line is written for target i: it comes after the line written last for
\* the target, which was not a terminal line; a method line follows the
\* success line of its candidate, the all-methods-failed line the
\* final-failure line of the last candidate
WritesInOrder(i) ==
    last_line'[i] # last_line[i] =>
        /\ LineBefore(last_line[i], last_line'[i])
        /\ ~TerminalLine(last_line[i])
        /\ last_line'[i][2] = Attempts + 3 =>
               last_line[i] = <<last_line'[i][1], Attempts + 2>>
        /\ last_line'[i][2] = Attempts + 4 =>
               last_line[i] = <<Len(nreq[i]), Attempts + 1>> /\ last_line'[i][1] = Len(nreq[i])
        /\ last_line'[i][2] = Attempts + 1 =>
               nfail[i][last_line'[i][1]] = Attempts

(***************************************************************************)
(* C24.  Per-target log ordering, in every interleaving: each line         *)
(* written to the audit log for a target comes after the lines written     *)
(* for it before (candidate order; within a candidate attempt 1, attempt   *)
(* 2, the final-failure line, or the success line and then the method      *)
(* line; the all-methods-failed line last), no line is written after the   *)
(* target's terminal line, a line names the URL and the attempt it is      *)
(* written for, and a target that has returned has its terminal line.      *)
(***************************************************************************)
C24_PerTargetLogOrder ==
    /\ [][\A i \in Slots : WritesInOrder(i)]_vars
    /\ [](\A w \in Workers :
            pc[w] \in {"log_open", "log_write"} =>
                /\ msg[w].kind \in {"attempt_failed", "final_failure", "downloaded"} =>
                       msg[w].url = CurCand(w).url
                /\ msg[w].kind = "attempt_failed" => msg[w].n = attempt[w] + 1)
    /\ [](\A i \in Slots : result[i] # <<>> => TerminalLine(last_line[i]))

\* two workers side by side: the log holds the all-methods-failed line of
\* the first target and the method line of the second, saved from its second
\* candidate
C24_Witness ==
    /\ Len(args) = 2
    /\ max_workers = 2
    /\ last_line[1] = <<Len(nreq[1]), Attempts + 4>>
    /\ last_line[2] = <<2, Attempts + 3>>
    /\ \A w \in Workers : task[w] # 0

\* the number a release tag of the catalog carries
ReleaseNumber ==
    [dr \in {DrList[i] : i \in 1..Len(DrList)} |->
        CASE dr = "dr16" -> 16 [] dr = "dr17" -> 17 [] dr = "dr18" -> 18
          [] dr = "dr15" -> 15 [] dr = "dr14" -> 14 [] dr = "dr13" -> 13
          [] dr = "dr12" -> 12 [] dr = "dr11" -> 11 [] dr = "dr10" -> 10
          [] dr = "dr9"  -> 9  [] dr = "dr8"  -> 8]

\* the highest-numbered release among the tags of the catalog
NewestRelease ==
    CHOOSE d \in DOMAIN ReleaseNumber :
        \A e \in DOMAIN ReleaseNumber : ReleaseNumber[e] <= ReleaseNumber[d]

\* the chain position of the tier-3 candidate (fallback method 2)
Tier3Pos(drs) == NumPairs(drs) + 2

\* the chain positions of the archive-path candidates: the fast path, the
\* sdss.org paths, the SAS path of every release of the full sweep
ArchivePositions(drs) ==
    {1} \cup (2..(NumPairs(drs) + 1))
        \cup {NumPairs(drs) + 1 + 2 * r : r \in 1..Len(drs)}

\* worker w waits for the answer to a request for the tier-3 candidate
AtTier3(w) == pc[w] = "wait" /\ pos[w] = Tier3Pos(dr_list)

\* the URL requested last for target i
LastUrl(i) == walk[i][Len(walk[i])]

\* the tier-3 URL differs from the URL of every archive-path candidate
Tier3NotArchive(w) ==
    \A c \in ArchivePositions(dr_list) : ChainOf(task[w])[c].url # LastUrl(task[w])

(***************************************************************************)
(* C25.  As claimed: the tier-3 generic API candidate is built for the     *)
(* newest release of the catalog, the highest-numbered release among the   *)
(* catalog's tags, and is a different URL from every archive-path          *)
(* candidate.                                                              *)
(***************************************************************************)
C25_Tier3NewestRelease ==
    \A w \in Workers :
        AtTier3(w) =>
            /\ LastUrl(task[w]) = construct_api_url(NewestRelease, args[task[w]].plate,
                                                    args[task[w]].mjd, args[task[w]].fiber)
            /\ Tier3NotArchive(w)

(***************************************************************************)
(* C25, amended.  The tier-3 generic API candidate is built for the        *)
(* release of the fast path, DR16, the first release in the catalog's      *)
(* order (its host is the host of the fast-path URL), and it is a          *)
(* different URL from every archive-path candidate.                        *)
(***************************************************************************)
C25_Tier3FastPathRelease ==
    \A w \in Workers :
        AtTier3(w) =>
            /\ LastUrl(task[w]) = construct_api_url(DrList[1], args[task[w]].plate,
                                                    args[task[w]].mjd, args[task[w]].fiber)
            /\ LastUrl(task[w])[1] = ChainOf(task[w])[1].url[1]
            /\ Tier3NotArchive(w)

\* the tier-3 candidate is requested with the shipped catalog, whose
\* highest-numbered release is not its first
C25_Witness ==
    /\ dr_list = DrList
    /\ NewestRelease # DrList[1]
    /\ \E w \in Workers : AtTier3(w) /\ attempt[w] = 1

(***************************************************************************)
(* C26.  The fixed backoff is an inter-attempt delay: a worker sleeps only *)
(* when another attempt for the same candidate follows, so once between    *)
(* attempt 1 and attempt 2 and not after the last attempt.                 *)
(***************************************************************************)
C26_DelayOnlyBetweenAttempts ==
    \A w \in Workers : pc[w] = "sleep" => attempt[w] + 1 < Attempts

\* how often u occurs among the requests lo..hi of target i
SweepCount(i, u, lo, hi) == Cardinality({k \in lo..hi : walk[i][k] = u})

(***************************************************************************)
(* C27.  Chain coverage: an exhausted resolution has requested, in the     *)
(* legacy sweep, the archive path of every (release, pipeline version)     *)
(* pair of the catalog as one candidate (two requests), and in the full    *)
(* sweep the archive path and the API path of every release as one         *)
(* candidate each; the chain has 1 + pairs + 1 + 2 * releases candidates:  *)
(* with the shipped catalog of 11 releases and 24 pairs 48 candidates, 96  *)
(* requests.                                                               *)
(***************************************************************************)
C27_ChainCoverage ==
    \A i \in Slots :
        Exhausted(i) =>
            LET n == NumPairs(dr_list)
                R == Len(dr_list)
                t == args[i]
            IN  /\ Len(nreq[i]) = 1 + n + 1 + 2 * R
                /\ Len(walk[i]) = Attempts * Len(nreq[i])
                /\ \A r \in 1..R : \A j \in 1..Len(run2d_multi[dr_list[r]]) :
                       SweepCount(i, construct_sdss_org_url(dr_list[r], run2d_multi[dr_list[r]][j],
                                                           t.plate, t.mjd, t.fiber),
                                  Attempts + 1, Attempts * (n + 1)) = Attempts
                /\ \A r \in 1..R :
                       /\ SweepCount(i, construct_sas_url(dr_list[r], t.plate, t.mjd, t.fiber),
                                     Attempts * (n + 2) + 1, Len(walk[i])) = Attempts
                       /\ SweepCount(i, construct_api_url(dr_list[r], t.plate, t.mjd, t.fiber),
                                     Attempts * (n + 2) + 1, Len(walk[i])) = Attempts
                /\ dr_list = DrList =>
                       /\ R = 11
                       /\ n = 24
                       /\ Len(nreq[i]) = 48
                       /\ Len(walk[i]) = 96

\* a resolution with the shipped catalog is exhausted and has returned
C27_Witness ==
    /\ dr_list = DrList
    /\ Exhausted(1)
    /\ main_pc = "returned"

\* worker w takes the step of get_unique_filename
UniqueStep(w) == pc[w] = "unique" /\ pc'[w] = "open"

(***************************************************************************)
(* C28.  get_unique_filename returns a path that does not exist when it    *)
(* returns: the path it was given when that is free, otherwise the path    *)
(* with _k before the extension for the smallest k >= 2 that is free; the  *)
(* directory is as it was; and the loop ends after at most as many rounds  *)
(* as the directory has files (k is at most their number plus one).       *)
(***************************************************************************)
C28_UniqueFilename ==
    [][\A w \in Workers :
            UniqueStep(w) =>
                LET f == filepath(task[w])
                    names == DOMAIN dir
                    r == final_path'[w]
                IN  /\ r \notin names
                    /\ dir' = dir
                    /\ f \notin names => r = f
                    /\ f \in names =>
                           \E k \in 2..(Cardinality(names) + 1) :
                               /\ r = SuffixName(f, k)
                               /\ \A j \in 2..(k - 1) : SuffixName(f, j) \in names]_vars

\* the path and the path with _2 exist: the call returned the path with _3
C28_Witness ==
    \E w \in Workers :
        /\ pc[w] = "open"
        /\ Cardinality(DOMAIN dir) = 2
        /\ final_path[w] = SuffixName(filepath(task[w]), 3)

\* the files the resolution of target i created
Created(i) == {p \in DOMAIN dir : dir[p].writers[1] = i}

(***************************************************************************)
(* C29.  No partial or duplicate success: when try_download returned       *)
(* success for a target, the resolution has created exactly one file, the  *)
(* one whose name it returned, and the file holds the whole payload.       *)
(***************************************************************************)
C29_OneFilePerSuccess ==
    \A i \in Slots :
        (result[i] # <<>> /\ result[i][1].flag) =>
            /\ Created(i) = {result[i][1].name}
            /\ i \in dir[result[i][1].name].complete

(***************************************************************************)
(* C30.  When try_download returned failure for a target, the resolution   *)
(* has left no file, and once the batch is over every file of the          *)
(* directory is a download that was saved whole.                           *)
(***************************************************************************)
C30_NoFileOnFailure ==
    /\ \A i \in Slots : Exhausted(i) => Created(i) = {}
    /\ main_pc = "returned" => \A p \in DOMAIN dir : dir[p].complete # {}

\* plates, MJDs and fibers on both sides of the widths 04d and 05d pad to,
\* and such that the digits of one triplet, run together, are those of another
NameTriplets ==
    [plate : {0, 7, 75, 751, 7510, 10751, 75100},
     mjd   : {0, 5, 52, 52251, 1},
     fiber : {0, 1, 16, 160, 1600, 16000, 100160}]

\* different triplets get different base filenames
BaseNamesDiffer ==
    \A t1, t2 \in NameTriplets :
        t1 # t2 => filename_base(t1.plate, t1.mjd, t1.fiber)
                       # filename_base(t2.plate, t2.mjd, t2.fiber)

(***************************************************************************)
(* C31.  Two targets with different (plate, mjd, fiber) triplets of        *)
(* non-negative integers get different base filenames; so, in every        *)
(* interleaving, two workers resolving distinct targets have different     *)
(* destination paths and never choose the same path to save to, and a      *)
(* file is only ever opened by resolutions of one target identity.         *)
(***************************************************************************)
C31_DistinctTargetsDistinctPaths ==
    /\ BaseNamesDiffer
    /\ \A v, w \in Workers :
           (task[v] # 0 /\ task[w] # 0 /\ args[task[v]] # args[task[w]]) =>
               /\ filepath(task[v]) # filepath(task[w])
               /\ final_path[v] # <<>> => final_path[v] # final_path[w]
    /\ \A p \in DOMAIN dir :
           \A a, b \in 1..Len(dir[p].writers) :
               args[dir[p].writers[a]] = args[dir[p].writers[b]]

\* two workers save payloads of two distinct targets at the same time, one
\* of them beside the file its own broken attempt left
C31_Witness ==
    /\ Len(args) = 2
    /\ args[1] # args[2]
    /\ \E v, w \in Workers :
           /\ task[v] = 1 /\ task[w] = 2
           /\ pc[v] = "stream" /\ pc[w] = "stream"
           /\ final_path[v] = SuffixName(filepath(1), 2)
           /\ final_path[w] = filepath(2)

(***************************************************************************)
(* A batch during which the audit log or the failed-target list cannot be  *)
(* written.  log_message and log_failed catch nothing: open(file, "a")     *)
(* raising OSError leaves try_download, unless the call is the one inside  *)
(* the try block of download_with_retry.  The future of the work item      *)
(* holds the exception; list(executor.map(...)) re-raises it when it       *)
(* reaches that future, and the iterator of executor.map cancels the       *)
(* futures not yet started.                                                *)
(***************************************************************************)
\* the resolution of target i ended with an exception
Raised(i) ==
    \E k \in 1..Len(log_errors) : log_errors[k] = [target |-> i, escaped |-> TRUE]

\* the success line cannot be written: the call is inside the try block, the
\* except branch takes the OSError for a failed attempt and logs it
LogFailCaught(w) ==
    /\ pc[w] = "log_open"
    /\ msg[w].kind = "downloaded"
    /\ Len(log_errors) < MaxLogErrors
    /\ log_errors' = Append(log_errors, [target |-> task[w], escaped |-> FALSE])
    /\ CallLog(w, FailLine(w, "OSError"), AfterFailedAttempt("OSError"))
    /\ att_out' = [att_out EXCEPT ![task[w]] = "OSError"]
    /\ nfail' = [nfail EXCEPT ![task[w]][pos[w]] = @ + 1]
    /\ final_path' = [final_path EXCEPT ![w] = <<>>]
    /\ UNCHANGED <<inputs, pool, pos, attempt, files, att_log, nreq, walk, inflight,
                   dwr, method, last_line, listed, result, fetcher, resolver, photo>>

\* any other line, or the line of log_failed, cannot be written: the OSError
\* leaves try_download and ends the work item; the thread is free again
LogFailEscapes(w) ==
    /\ \/ pc[w] = "log_open" /\ msg[w].kind # "downloaded"
       \/ pc[w] = "fail_open"
    /\ Len(log_errors) < MaxLogErrors
    /\ log_errors' = Append(log_errors, [target |-> task[w], escaped |-> TRUE])
    /\ task' = Release(w)
    /\ pc' = [pc EXCEPT ![w] = "idle"]
    /\ pos' = [pos EXCEPT ![w] = 0]
    /\ attempt' = [attempt EXCEPT ![w] = 0]
    /\ final_path' = [final_path EXCEPT ![w] = <<>>]
    /\ msg' = [msg EXCEPT ![w] = <<>>]
    /\ after' = [after EXCEPT ![w] = "idle"]
    /\ UNCHANGED <<inputs, main_pc, queue, files, hist, fetcher, resolver, photo>>

\* list(executor.map(...)) has the results of the work items before i and
\* reaches the future of i, which holds an exception: the exception is
\* raised in download_all and the futures not yet started are cancelled
Abort ==
    /\ main_pc = "pool"
    /\ \E i \in Slots : Raised(i) /\ \A j \in 1..(i - 1) : result[j] # <<>>
    /\ main_pc' = "aborting"
    /\ queue' = <<>>
    /\ UNCHANGED <<inputs, others, task, ctl, files, hist>>

\* the with block is left with the exception: shutdown(wait=True) joins the
\* threads, download_all raises
FinishAbort ==
    /\ main_pc = "aborting"
    /\ \A w \in Workers : task[w] = 0
    /\ main_pc' = "raised"
    /\ UNCHANGED <<inputs, others, queue, task, ctl, files, hist>>

\* no work item raised: download_all returns
FinishClean == Finish /\ \A i \in Slots : ~Raised(i)

NextLogFault ==
    \/ Submit
    \/ \E w \in Workers : Step(w)
    \/ \E w \in Workers : LogFailCaught(w)
    \/ \E w \in Workers : LogFailEscapes(w)
    \/ Abort
    \/ FinishAbort
    \/ FinishClean

SpecLogFault == InitOverBudget /\ [][NextLogFault]_vars

(***************************************************************************)
(* C32.  If the resolution of one target raises an exception out of        *)
(* try_download, every other target of the batch is still dispatched and   *)
(* reaches its terminal outcome: when download_all is over, every target   *)
(* whose resolution did not raise has returned.                            *)
(***************************************************************************)
C32_OthersStillResolved ==
    main_pc \in {"returned", "raised"} =>
        \A i \in Slots : ~Raised(i) => result[i] # <<>>

(***************************************************************************)
(* download_all called with argument lists of different lengths.           *)
(***************************************************************************)
\* the first n elements of a list
Prefix(seq, n) == SubSeq(seq, 1, n)

\* the argument lists of a batch of MaxTargets distinct targets, one or two
\* of them cut short
UnevenLists ==
    {[plates |-> Prefix(ListsOf(b).plates, np),
      mjds   |-> Prefix(ListsOf(b).mjds, nm),
      fibers |-> Prefix(ListsOf(b).fibers, nf)] :
        <<b, np, nm, nf>> \in
            {x \in BatchesOf(MaxTargets) \X (1..MaxTargets) \X (1..MaxTargets)
                                         \X (1..MaxTargets) :
                /\ ~(x[2] = x[3] /\ x[3] = x[4])
                /\ \A j, k \in 1..MaxTargets : j # k => x[1][j] # x[1][k]}}

\* one worker: the threads beyond the number of work items never start
InitUneven == (\E l \in UnevenLists : Called(l)) /\ max_workers = 1 /\ AtRest

SpecUneven == InitUneven /\ [][Next]_vars

\* the length of the longest argument list: the positions of the input
Positions ==
    1..(CHOOSE n \in {Len(lists.plates), Len(lists.mjds), Len(lists.fibers)} :
            /\ n >= Len(lists.plates)
            /\ n >= Len(lists.mjds)
            /\ n >= Len(lists.fibers))

(***************************************************************************)
(* C33.  download_all resolves every supplied target exactly once: when    *)
(* it has returned, try_download has run once for every position of the    *)
(* input lists, also when the three lists have different lengths.          *)
(***************************************************************************)
C33_EveryPositionOnce ==
    main_pc = "returned" =>
        \A i \in Positions : i \in Slots /\ Len(result[i]) = 1

(***************************************************************************)
(* CutoutFetcher.fetch_single and SpectrumPreview.fetch_single: the same   *)
(* loop, for attempt in range(1, self.max_retries + 2), around a try       *)
(* block that requests, decodes, saves and shows the image.                *)
(***************************************************************************)
\* a downloader that is constructed and not used
DownloaderUnused ==
    /\ Called(ListsOf(<<TargetPool[1]>>))
    /\ max_workers = 1
    /\ log_errors = <<>>

\* the fetcher constructed with max_retries m
InitFetcher ==
    /\ DownloaderUnused
    /\ resolver = ResolverIdle
    /\ photo = PhotoIdle
    /\ fetcher \in {[FetcherIdle EXCEPT !.pc = "ready", !.component = c, !.max_retries = m] :
                        c \in {"cutout", "preview"}, m \in 0..MaxRetries}

\* where the try block can raise: requests.get, raise_for_status, Image.open,
\* image.save, plt.show
FetchCauses == {"request", "status", "image", "save", "show"}

\* fetch_single is called; CutoutFetcher returns "" at once when the
\* coordinates are missing or not valid
FetchCall(valid) ==
    /\ fetcher.pc = "ready"
    /\ fetcher' =
           IF fetcher.component = "cutout" /\ ~valid
           THEN [fetcher EXCEPT !.pc = "done", !.ret = ""]
           ELSE [fetcher EXCEPT !.pc = "loop", !.attempt = 1]
    /\ UNCHANGED <<downloader, resolver, photo>>

\* requests.get(url, stream=True, timeout=30)
FetchGet ==
    /\ fetcher.pc = "loop"
    /\ fetcher' = [fetcher EXCEPT !.pc = "wait", !.trace = Append(@, [ev |-> "get"])]
    /\ UNCHANGED <<downloader, resolver, photo>>

\* the try block runs to its end: return filepath
FetchSaved ==
    /\ fetcher.pc = "wait"
    /\ fetcher' = [fetcher EXCEPT !.pc = "done", !.ret = "filepath",
                                  !.trace = Append(@, [ev |-> "saved"])]
    /\ UNCHANGED <<downloader, resolver, photo>>

\* a loop that waits after every failed attempt
RetryWaitsAlways(attempt_no, max_retries) == TRUE

\* if attempt < self.max_retries + 1: time.sleep(self.retry_wait)
RetryWaits(attempt_no, max_retries) == attempt_no < max_retries + 1

\* the try block raises at cause: the except branch logs the attempt
FetchFail(cause) ==
    /\ fetcher.pc = "wait"
    /\ fetcher' = [fetcher EXCEPT
                      !.pc = IF RetryWaits(fetcher.attempt, fetcher.max_retries)
                             THEN "sleep" ELSE "next",
                      !.trace = Append(@, [ev |-> "fail", cause |-> cause])]
    /\ UNCHANGED <<downloader, resolver, photo>>

\* time.sleep(self.retry_wait)
FetchSleep ==
    /\ fetcher.pc = "sleep"
    /\ fetcher' = [fetcher EXCEPT !.pc = "next", !.trace = Append(@, [ev |-> "sleep"])]
    /\ UNCHANGED <<downloader, resolver, photo>>

\* the next attempt of the range, or after the loop handle_exception and
\* return ""
FetchNext ==
    /\ fetcher.pc = "next"
    /\ fetcher' =
           IF fetcher.attempt + 1 < fetcher.max_retries + 2
           THEN [fetcher EXCEPT !.pc = "loop", !.attempt = @ + 1]
           ELSE [fetcher EXCEPT !.pc = "done", !.ret = ""]
    /\ UNCHANGED <<downloader, resolver, photo>>

NextFetcher ==
    \/ \E valid \in BOOLEAN : FetchCall(valid)
    \/ FetchGet
    \/ FetchSaved
    \/ \E cause \in FetchCauses : FetchFail(cause)
    \/ FetchSleep
    \/ FetchNext

SpecFetcher == InitFetcher /\ [][NextFetcher]_vars

\* the places of the trace of fetch_single that hold the event ev
TraceAt(ev) == {k \in 1..Len(fetcher.trace) : fetcher.trace[k].ev = ev}

(***************************************************************************)
(* C34.  fetch_single makes at most max_retries + 1 attempts, stops at     *)
(* the first attempt that succeeds and returns the saved path, waits only  *)
(* between two attempts (after a failed attempt that another one follows,  *)
(* never after the last one), and returns the empty string after the last  *)
(* attempt has failed.                                                     *)
(***************************************************************************)
C34_BoundedRetries ==
    LET trace == fetcher.trace
        n == Len(trace)
    IN  /\ Cardinality(TraceAt("get")) <= fetcher.max_retries + 1
        /\ \A k \in TraceAt("saved") :
               k = n /\ fetcher.pc = "done" /\ fetcher.ret = "filepath"
        /\ fetcher.ret = "filepath" => n \in TraceAt("saved")
        /\ \A k \in TraceAt("sleep") :
               /\ k - 1 \in TraceAt("fail")
               /\ k < n => k + 1 \in TraceAt("get")
               /\ fetcher.pc = "done" => k < n
        /\ (fetcher.pc = "done" /\ fetcher.ret = "" /\ n > 0) =>
               /\ Cardinality(TraceAt("get")) = fetcher.max_retries + 1
               /\ n \in TraceAt("fail")
               /\ Cardinality(TraceAt("sleep")) = fetcher.max_retries
        /\ fetcher.pc = "done" => fetcher.ret \in {"filepath", ""}

\* a preview fetcher with two retries has failed three times, waited twice
\* and returned the empty string
C34_Witness ==
    /\ fetcher.component = "preview"
    /\ fetcher.max_retries = 2
    /\ fetcher.pc = "done"
    /\ fetcher.ret = ""
    /\ Cardinality(TraceAt("fail")) = 3
    /\ Cardinality(TraceAt("sleep")) = 2

(***************************************************************************)
(* TargetResolver.  Coordinates are in units of 1e-7 degree; a dict is a   *)
(* record; the cache maps a key to the dict object it holds, and a call    *)
(* returns either a dict of its own ("fresh") or the very object the      *)
(* cache holds ("cached").  The key source_idx of a dict is a sequence:    *)
(* empty when the dict has no such key.                                    *)
(***************************************************************************)
\* the coordinates the calls are made with: two of them less than 1e-6
\* degree apart
Coords ==
    {[ra |-> 1800000000, dec |-> 450000000],
     [ra |-> 1800000004, dec |-> 450000000],
     [ra |-> 100000000, dec |-> 0]}

\* f"{x:.6f}": x rounded to six decimals
Round6(x) == (x + 5) \div 10

\* cache_key = f"{ra:.6f}_{dec:.6f}"
radec_key(c) == <<"radec", Round6(c.ra), Round6(c.dec)>>

\* cache_key = f"pmf_{plate}_{mjd}_{fiberid}"
pmf_key(t) == <<"pmf", t.plate, t.mjd, t.fiber>>

\* SDSS.query_region(coord, spectro=True, radius=...): the match list of
\* the archive, the same for coordinates less than a search radius apart
Matches(c) == IF Round6(c.ra) = 180000000 THEN <<"match0", "match1">> ELSE <<>>

\* SDSS.query_specobj(plate, mjd, fiberID): the coordinates of the object,
\* none for an object the archive does not have
SpecObj(t) ==
    IF t = TargetPool[1] THEN <<[ra |-> 1800000000, dec |-> 450000000]>> ELSE <<>>

NoDict == [kind |-> "none"]

\* the dict a returned reference stands for, None as match "None"
Deref(cache, ref) ==
    CASE ref.kind = "fresh"  -> ref.value
      [] ref.kind = "cached" -> cache[ref.key]
      [] ref.kind = "none"   -> [match |-> "None", source_idx |-> <<>>]

\* resolve_target on the resolver state r; ok: the query does not raise.
\* The reference returned, the cache and the values first stored in it
resolve_target(r, c, select, ok) ==
    LET key == radec_key(c)
        n == Len(Matches(c))
        sel == IF select < 0 \/ select >= n THEN 0 ELSE select
        chosen_dict == [match |-> Matches(c)[sel + 1], source_idx |-> <<>>]
    IN  IF r.cache_results /\ key \in DOMAIN r.cache
        THEN [ref |-> [kind |-> "cached", key |-> key], cache |-> r.cache, first |-> r.first]
        ELSE IF ~ok \/ n = 0
        THEN [ref |-> NoDict, cache |-> r.cache, first |-> r.first]
        ELSE [ref |-> [kind |-> "fresh", value |-> chosen_dict],
              cache |-> IF r.cache_results THEN (key :> chosen_dict) @@ r.cache ELSE r.cache,
              first |-> IF r.cache_results THEN (key :> chosen_dict) @@ r.first ELSE r.first]

\* the resolver after a call op that returned ref
Returned(r, op, c, select, ok, out) ==
    [r EXCEPT !.cache = out.cache, !.first = out.first, !.ncalls = @ + 1,
              !.call = [op |-> op, c |-> c, select |-> select, ok |-> ok,
                        ref |-> out.ref, ret |-> Deref(out.cache, out.ref)]]

InitResolver ==
    /\ DownloaderUnused
    /\ fetcher = FetcherIdle
    /\ photo = PhotoIdle
    /\ resolver \in {[ResolverIdle EXCEPT !.pc = "ready", !.cache_results = b] :
                         b \in BOOLEAN}

ResolveTarget(c, select, ok) ==
    /\ resolver.pc = "ready"
    /\ resolver.ncalls < MaxCalls
    /\ resolver' = Returned(resolver, "resolve_target", c, select, ok,
                            resolve_target(resolver, c, select, ok))
    /\ UNCHANGED <<downloader, fetcher, photo>>

\* result['source_idx'] = i on the dict that ref stands for
SetSourceIdx(out, i) ==
    CASE out.ref.kind = "cached" ->
             [out EXCEPT !.cache[out.ref.key].source_idx = <<i>>]
      [] out.ref.kind = "fresh" ->
             [out EXCEPT !.ref.value.source_idx = <<i>>]
      [] out.ref.kind = "none" -> out

\* the loop of resolve_all from row i on: every row is resolved and the
\* dict returned for it gets the key source_idx
RECURSIVE ResolveRows(_, _, _, _, _)
ResolveRows(r, rows, i, select, ok) ==
    IF i > Len(rows) THEN [ref |-> NoDict, cache |-> r.cache, first |-> r.first]
    ELSE LET out == SetSourceIdx(resolve_target(r, rows[i], select, ok), i - 1)
             rest == ResolveRows([r EXCEPT !.cache = out.cache, !.first = out.first],
                                 rows, i + 1, select, ok)
         IN  IF i = Len(rows) THEN out ELSE rest

\* resolve_all(df, select=select); the call records the dict of the last row
ResolveAll(rows, select, ok) ==
    /\ resolver.pc = "ready"
    /\ resolver.ncalls < MaxCalls
    /\ resolver' = Returned(resolver, "resolve_all", rows[Len(rows)], select, ok,
                            ResolveRows(resolver, rows, 1, select, ok))
    /\ UNCHANGED <<downloader, fetcher, photo>>

\* resolve_by_pmfs(plate, mjd, fiberid, select)
ResolveByPmfs(t, select, ok) ==
    /\ resolver.pc = "ready"
    /\ resolver.ncalls < MaxCalls
    /\ LET key == pmf_key(t)
           hit == resolver.cache_results /\ key \in DOMAIN resolver.cache
           out == IF ~ok \/ SpecObj(t) = <<>>
                  THEN [ref |-> NoDict, cache |-> resolver.cache, first |-> resolver.first]
                  ELSE resolve_target(resolver, SpecObj(t)[1], select, ok)
           target == Deref(out.cache, out.ref)
           stored == IF out.ref.kind # "none" /\ resolver.cache_results
                     THEN [out EXCEPT !.cache = (key :> target) @@ @,
                                      !.first = (key :> target) @@ @]
                     ELSE out
       IN  resolver' =
               IF hit
               THEN Returned(resolver, "resolve_by_pmfs", t, select, ok,
                             [ref |-> [kind |-> "cached", key |-> key],
                              cache |-> resolver.cache, first |-> resolver.first])
               ELSE Returned(resolver, "resolve_by_pmfs", t, select, ok, stored)
    /\ UNCHANGED <<downloader, fetcher, photo>>

\* the caller sets a key of the dict the last call returned (to a value no
\* row of a DataFrame has given it)
CallerEdits ==
    /\ resolver.pc = "ready"
    /\ resolver.call # <<>>
    /\ resolver.call.ref.kind = "cached"
    /\ resolver.call.ref.key \in DOMAIN resolver.cache
    /\ resolver.cache[resolver.call.ref.key].source_idx # <<MaxRows>>
    /\ resolver' = [resolver EXCEPT !.cache[resolver.call.ref.key].source_idx = <<MaxRows>>]
    /\ UNCHANGED <<downloader, fetcher, photo>>

\* clear_cache()
ClearCache ==
    /\ resolver.pc = "ready"
    /\ resolver.cache # <<>>
    /\ resolver' = [resolver EXCEPT !.cache = <<>>, !.first = <<>>]
    /\ UNCHANGED <<downloader, fetcher, photo>>

\* the DataFrames of at most MaxRows rows
Frames == UNION {[1..n -> Coords] : n \in 1..MaxRows}

NextResolver ==
    \/ \E c \in Coords, select \in 0..2, ok \in BOOLEAN : ResolveTarget(c, select, ok)
    \/ \E rows \in Frames, select \in 0..2, ok \in BOOLEAN : ResolveAll(rows, select, ok)
    \/ \E t \in {TargetPool[1], TargetPool[2]}, select \in 0..2, ok \in BOOLEAN :
           ResolveByPmfs(t, select, ok)
    \/ CallerEdits
    \/ ClearCache

SpecResolver == InitResolver /\ [][NextResolver]_vars

(***************************************************************************)
(* C35.  Resolver cache transparency: a cache hit for a key returns a      *)
(* value equal to the one the original lookup for that key returned, and   *)
(* the values stored in the cache are never changed by later calls or by   *)
(* callers modifying a returned result.                                    *)
(***************************************************************************)
C35_CacheTransparent ==
    /\ \A key \in DOMAIN resolver.cache : resolver.cache[key] = resolver.first[key]
    /\ (resolver.call # <<>> /\ resolver.call.ref.kind = "cached"
           /\ resolver.call.ref.key \in DOMAIN resolver.first) =>
           resolver.call.ret = resolver.first[resolver.call.ref.key]

(***************************************************************************)
(* C36.  resolve_target(ra, dec, select) returns the match at index        *)
(* select of the match list for (ra, dec), index 0 when select is out of   *)
(* range, None when the list is empty, with caching enabled as with        *)
(* caching disabled.                                                       *)
(***************************************************************************)
C36_SelectHonoured ==
    (resolver.call # <<>> /\ resolver.call.op = "resolve_target" /\ resolver.call.ok) =>
        LET m == Matches(resolver.call.c)
            select == resolver.call.select
        IN  resolver.call.ret.match =
                IF m = <<>> THEN "None"
                ELSE IF select >= Len(m) THEN m[1] ELSE m[select + 1]

(***************************************************************************)
(* RegionBasedPhotometryFetcher.query_sdss_per_region.  The regions are    *)
(* the distinct region ids of the input, numbered in their order; the rows *)
(* a region returned are named by the number of the region.                *)
(***************************************************************************)
\* how the queries of the regions of one call go: data, no rows, an exception
RegionOutcomes ==
    UNION {[1..n -> {"data", "empty", "error"}] : n \in 1..MaxRegions}

InitPhoto ==
    /\ DownloaderUnused
    /\ fetcher = FetcherIdle
    /\ resolver = ResolverIdle
    /\ photo = [PhotoIdle EXCEPT !.pc = "ready"]

\* query_sdss_per_region(df, checkpoint_path=..., checkpoint_step=step)
PhotoCall(outcomes, checkpoint, step) ==
    /\ photo.pc = "ready"
    /\ photo' = [photo EXCEPT !.pc = "loop", !.outcomes = outcomes,
                              !.checkpoint = checkpoint, !.step = step]
    /\ UNCHANGED <<downloader, fetcher, resolver>>

\* one round of the loop over unique_regions: the query, the region put
\* with the data, the empty or the failed ones (continue), the checkpoint
PhotoRegion ==
    /\ photo.pc = "loop"
    /\ photo.i < Len(photo.outcomes)
    /\ LET region == photo.i + 1
           o == photo.outcomes[region]
           chunk == IF o = "data" THEN Append(photo.chunk, region) ELSE photo.chunk
           write == /\ o # "error"
                    /\ photo.checkpoint
                    /\ (photo.i + 1) % photo.step = 0
                    /\ chunk # <<>>
       IN  photo' = [photo EXCEPT
               !.i = @ + 1,
               !.empty = IF o = "empty" THEN Append(@, region) ELSE @,
               !.failed = IF o = "error" THEN Append(@, region) ELSE @,
               !.file = IF write THEN @ \o chunk ELSE @,
               !.all = IF write THEN @ \o chunk ELSE @,
               !.chunk = IF write THEN <<>> ELSE chunk]
    /\ UNCHANGED <<downloader, fetcher, resolver>>

\* after the loop: the final chunk is written when checkpoint_path is given
\* and the chunk is not empty (to_parquet(..., engine='pyarrow',
\* append=True): the write goes through, or the engine rejects the keyword
\* and the call raises), then the concatenation of all_results is returned
PhotoFinal(written) ==
    /\ photo.pc = "loop"
    /\ photo.i = Len(photo.outcomes)
    /\ LET final == photo.checkpoint /\ photo.chunk # <<>>
       IN  photo' =
               IF final /\ ~written THEN [photo EXCEPT !.pc = "raised"]
               ELSE IF final
               THEN [photo EXCEPT !.pc = "done", !.file = @ \o photo.chunk,
                                  !.all = @ \o photo.chunk,
                                  !.ret = photo.all \o photo.chunk]
               ELSE [photo EXCEPT !.pc = "done", !.ret = photo.all]
    /\ UNCHANGED <<downloader, fetcher, resolver>>

NextPhoto ==
    \/ \E outcomes \in RegionOutcomes, checkpoint \in BOOLEAN, step \in 1..MaxStep :
           PhotoCall(outcomes, checkpoint, step)
    \/ PhotoRegion
    \/ \E written \in BOOLEAN : PhotoFinal(written)

SpecPhoto == InitPhoto /\ [][NextPhoto]_vars

(***************************************************************************)
(* C37.  query_sdss_per_region handles every region exactly once and       *)
(* classifies it as exactly one of data returned, empty, failed; the       *)
(* returned table holds the rows of every region that returned data        *)
(* exactly once, and no other rows, with or without checkpoint_path and    *)
(* whatever checkpoint_step is.                                            *)
(***************************************************************************)
C37_EveryRegionOnce ==
    photo.pc = "done" =>
        LET Occurs(seq, x) == Cardinality({k \in 1..Len(seq) : seq[k] = x})
        IN  \A region \in 1..Len(photo.outcomes) :
                /\ Occurs(photo.empty, region)
                       = IF photo.outcomes[region] = "empty" THEN 1 ELSE 0
                /\ Occurs(photo.failed, region)
                       = IF photo.outcomes[region] = "error" THEN 1 ELSE 0
                /\ Occurs(photo.ret, region)
                       = IF photo.outcomes[region] = "data" THEN 1 ELSE 0

====
